---- MODULE Spec2Model ----
(***************************************************************************)
(* Model of the client-side authentication flow of the book review         *)
(* frontend: the reducer-driven auth store (AuthProvider), the persisted   *)
(* 'token' / 'user' entries of localStorage, and the API client with its   *)
(* request and response interceptors.                                      *)
(*                                                                         *)
(* One step of the model is one event-loop task: a user-triggered call up  *)
(* to its first await, or the delivery of an HTTP response together with   *)
(* the response interceptor and the continuation of the awaiting function. *)
(***************************************************************************)
EXTENDS Integers, Sequences, FiniteSets, TLC

\* ------------------------------------------------------------------------
\* Bounds
\* ------------------------------------------------------------------------
NumJwt == 1        \* distinct JwtResponse bodies the backend may answer a login with
NumProfiles == 1   \* distinct User bodies the backend may answer a profile request with
MaxInFlight == 2   \* operations of the page that may be suspended at an await at once
NumBooks == 1      \* books the backend lists
MaxRefresh == 1    \* clicks on Refresh / Retry / Try Again per mounted dashboard
MaxText == 3       \* characters typed into the header's search field

\* ------------------------------------------------------------------------
\* Values
\* ------------------------------------------------------------------------
Null == <<>>       \* JS null / undefined, an absent localStorage entry

Slots ==
  {"init", "login", "register", "logout", "updateProfile", "changePassword",
   "refreshProfile", "api"}

\* Request paths of the API client.
URL_LOGIN == "/auth/login"
URL_PROFILE == "/auth/profile"
URL_BOOKS == "/books"
URL_MY_REVIEWS == "/auth/my-reviews"

\* `/books/${bookId}/favorite`
FavoriteUrl(bookId) ==
  CASE bookId = 1 -> "/books/1/favorite"
    [] bookId = 2 -> "/books/2/favorite"

\* `/books/recommendations/${recommendationId}/feedback`
FeedbackUrl(recommendationId) ==
  CASE recommendationId = 1 -> "/books/recommendations/1/feedback"
    [] recommendationId = 2 -> "/books/recommendations/2/feedback"

\* `/books/${id}`, `/books/${bookId}/reviews` and `/reviews/${reviewId}`
BookUrl(id) ==
  CASE id = 1 -> "/books/1"
    [] id = 2 -> "/books/2"
ReviewsUrl(bookId) ==
  CASE bookId = 1 -> "/books/1/reviews"
    [] bookId = 2 -> "/books/2/reviews"
ReviewUrl(reviewId) ==
  CASE reviewId = 1 -> "/reviews/1"
    [] reviewId = 2 -> "/reviews/2"

\* The characters of the strings the response interceptor looks at, so that
\* String.prototype.includes is modelled as the substring test it is.
Chars(str) ==
  CASE str = "/auth/login" -> <<"/","a","u","t","h","/","l","o","g","i","n">>
    [] str = "/auth/register" -> <<"/","a","u","t","h","/","r","e","g","i","s","t","e","r">>
    [] str = "/auth/validate" -> <<"/","a","u","t","h","/","v","a","l","i","d","a","t","e">>
    [] str = "/auth/logout" -> <<"/","a","u","t","h","/","l","o","g","o","u","t">>
    [] str = "/auth/profile" -> <<"/","a","u","t","h","/","p","r","o","f","i","l","e">>
    [] str = "/auth/change-password" ->
         <<"/","a","u","t","h","/","c","h","a","n","g","e","-","p","a","s","s","w","o","r","d">>
    [] str = "/books" -> <<"/","b","o","o","k","s">>
    [] str = "/auth/my-reviews" -> <<"/","a","u","t","h","/","m","y","-","r","e","v","i","e","w","s">>
    [] str = "/books/top-rated" ->
         <<"/","b","o","o","k","s","/","t","o","p","-","r","a","t","e","d">>
    [] str = "/books/favorites" ->
         <<"/","b","o","o","k","s","/","f","a","v","o","r","i","t","e","s">>
    [] str = "/books/recommendations" ->
         <<"/","b","o","o","k","s","/","r","e","c","o","m","m","e","n","d","a","t","i","o","n","s">>
    [] str = "/books/ai-recommendations" ->
         <<"/","b","o","o","k","s","/","a","i","-","r","e","c","o","m","m","e","n","d","a","t",
           "i","o","n","s">>
    [] str = "/books/1/favorite" ->
         <<"/","b","o","o","k","s","/","1","/","f","a","v","o","r","i","t","e">>
    [] str = "/books/2/favorite" ->
         <<"/","b","o","o","k","s","/","2","/","f","a","v","o","r","i","t","e">>
    [] str = "/books/recommendations/1/feedback" ->
         <<"/","b","o","o","k","s","/","r","e","c","o","m","m","e","n","d","a","t","i","o","n","s",
           "/","1","/","f","e","e","d","b","a","c","k">>
    [] str = "/books/recommendations/2/feedback" ->
         <<"/","b","o","o","k","s","/","r","e","c","o","m","m","e","n","d","a","t","i","o","n","s",
           "/","2","/","f","e","e","d","b","a","c","k">>
    [] str = "/books/1" -> <<"/","b","o","o","k","s","/","1">>
    [] str = "/books/2" -> <<"/","b","o","o","k","s","/","2">>
    [] str = "/books/1/reviews" -> <<"/","b","o","o","k","s","/","1","/","r","e","v","i","e","w","s">>
    [] str = "/books/2/reviews" -> <<"/","b","o","o","k","s","/","2","/","r","e","v","i","e","w","s">>
    [] str = "/reviews/1" -> <<"/","r","e","v","i","e","w","s","/","1">>
    [] str = "/reviews/2" -> <<"/","r","e","v","i","e","w","s","/","2">>
    [] str = "/auth/" -> <<"/","a","u","t","h","/">>
    [] str = "/profile" -> <<"/","p","r","o","f","i","l","e">>
    [] str = "" -> <<>>

AUTH_PART == "/auth/"
PROFILE_PART == "/profile"

\* s.includes(sub)
Includes(str, part) ==
  LET s == Chars(str)
      sub == Chars(part)
  IN \E i \in 1..(Len(s) + 1) :
        /\ i + Len(sub) - 1 <= Len(s)
        /\ SubSeq(s, i, i + Len(sub) - 1) = sub

\* JwtResponse bodies of POST /auth/login
JwtResponses ==
  { [token |-> <<"jwt", i>>, userId |-> i, name |-> <<"name", i>>,
     email |-> <<"email", i>>] : i \in 1..NumJwt }

\* Tokens that can be found in localStorage at startup: one issued by a login
\* the backend may answer again, or an older one it has since retired.
STALE_TOKEN == <<"jwt", 0>>

\* RegisterData / login form input. The store passes the fields on without
\* looking at them, so one input with three distinguishable fields stands for
\* all of them.
RegisterInputs ==
  { [name |-> <<"name", "form">>, email |-> <<"email", "form">>,
     password |-> <<"pw", "form">>] }

\* PasswordChangeData as the profile form submits it: the confirmation repeats
\* the new password, or differs from it.
PasswordInputs ==
  { [currentPassword |-> <<"pw", "old">>, newPassword |-> <<"pw", "new">>,
     confirmPassword |-> c] : c \in { <<"pw", "new">>, <<"pw", "typo">> } }

\* User bodies returned by GET/PUT /auth/profile and POST /auth/register
Profiles ==
  { [id |-> i, name |-> <<"name", i>>, email |-> <<"email", i>>,
     emailVerified |-> TRUE, active |-> TRUE, createdAt |-> "server",
     reviewCount |-> 5, favoriteBooksCount |-> 3] : i \in 1..NumProfiles }

\* ApiResponse<User> bodies (success, message, optional data)
ApiResponses ==
  { [success |-> TRUE, message |-> "ok", data |-> p] : p \in Profiles }
    \cup { [success |-> FALSE, message |-> "failed", data |-> Null],
           [success |-> FALSE, message |-> "", data |-> Null] }

\* Transport errors as axios raises them
TransportErrors(url) ==
  { [response |-> [status |-> 401], config |-> [url |-> url]],
    [response |-> Null, config |-> [url |-> url]] }

\* new Error(message)
LocalError(message) == [message |-> message]

\* response.message || fallback
OrElse(message, fallback) == IF message = "" THEN fallback ELSE message

\* error.response?.status === status
HasStatus(error, status) == error.response # Null /\ error.response.status = status

\* JSON.stringify / JSON.parse on the persisted user entry
JSONstringify(v) == <<"json", v>>
ParseThrows(s) == ~(Len(s) = 2 /\ s[1] = "json")
JSONparse(s) == s[2]

Bearer(token) == <<"Bearer", token>>

\* ------------------------------------------------------------------------
\* Auth store (reducer)
\* ------------------------------------------------------------------------
initialState == [user |-> Null, token |-> Null, loading |-> TRUE, isAuthenticated |-> FALSE]

\* Mutant: LOGIN_FAILURE forgets to reset isAuthenticated.
authReducer_KeepsFlag(s, action) ==
  CASE action.type = "SET_LOADING" ->
         [s EXCEPT !.loading = action.payload]
    [] action.type = "LOGIN_SUCCESS" ->
         [s EXCEPT !.user = action.payload.user, !.token = action.payload.token,
                   !.loading = FALSE, !.isAuthenticated = TRUE]
    [] action.type = "LOGIN_FAILURE" ->
         [s EXCEPT !.user = Null, !.token = Null, !.loading = FALSE]
    [] action.type = "LOGOUT" ->
         [s EXCEPT !.user = Null, !.token = Null, !.loading = FALSE,
                   !.isAuthenticated = FALSE]
    [] action.type = "SET_USER" ->
         [s EXCEPT !.user = action.payload, !.loading = FALSE, !.isAuthenticated = TRUE]
    [] OTHER -> s

authReducer(s, action) ==
  CASE action.type = "SET_LOADING" ->
         [s EXCEPT !.loading = action.payload]
    [] action.type = "LOGIN_SUCCESS" ->
         [s EXCEPT !.user = action.payload.user, !.token = action.payload.token,
                   !.loading = FALSE, !.isAuthenticated = TRUE]
    [] action.type = "LOGIN_FAILURE" ->
         [s EXCEPT !.user = Null, !.token = Null, !.loading = FALSE,
                   !.isAuthenticated = FALSE]
    [] action.type = "LOGOUT" ->
         [s EXCEPT !.user = Null, !.token = Null, !.loading = FALSE,
                   !.isAuthenticated = FALSE]
    [] action.type = "SET_USER" ->
         [s EXCEPT !.user = action.payload, !.loading = FALSE, !.isAuthenticated = TRUE]
    [] OTHER -> s

SetLoading(b) == [type |-> "SET_LOADING", payload |-> b]
LoginSuccess(user, token) ==
  [type |-> "LOGIN_SUCCESS", payload |-> [user |-> user, token |-> token]]
LoginFailure == [type |-> "LOGIN_FAILURE", payload |-> Null]

\* ------------------------------------------------------------------------
\* State
\* ------------------------------------------------------------------------
VARIABLES
  state,          \* the reducer state {user, token, loading, isAuthenticated}
  localStorage,   \* the persisted entries [token, user]
  defaultAuth,    \* api.defaults.headers.common['Authorization']
  location,       \* window.location.href as left by the response interceptor
  pc,             \* per operation: where the async function is suspended
  locals,         \* per operation: the arguments / locals it captured
  net,            \* per operation: the request it has in flight
  last,           \* the last step of the auth store / API client and how it settled
  page,           \* the route the router shows
  dash,           \* local state of the mounted RecommendationDashboard, or Null
  cache,          \* the query cache: one entry per query key
  mut,            \* per mutation site: the state of its useMutation
  sent,           \* the request a view's query or mutation sent in this step, or Null
  searchQuery,    \* the text in the header's search field
  loginPage,      \* the location /login and its LoginPage, or Null on another route
  profileDue      \* ProfilePage is mounted and its refresh effect is due

vars == <<state, localStorage, defaultAuth, location, pc, locals, net, last,
          page, dash, cache, mut, sent, searchQuery, loginPage, profileDue>>

\* Environment: the backend answers a request to one of its protected
\* endpoints successfully only when the request carried an Authorization
\* header (it may still refuse a request that carried one).
ProtectedUrls == {URL_PROFILE, URL_MY_REVIEWS}
Served(request) == request.url \in ProtectedUrls => request.withAuth

\* What is kept of a request while it is in flight: its method, path and body,
\* and, for a protected endpoint, whether it carried an Authorization header.
NoRequest == [method |-> "none", url |-> "", data |-> Null, withAuth |-> FALSE]
Pending(request) ==
  [method |-> request.method, url |-> request.url, data |-> request.data,
   withAuth |-> request.url \in ProtectedUrls /\ request.auth # Null]
EmptyStorage == [token |-> Null, user |-> Null]

\* ------------------------------------------------------------------------
\* API client
\* ------------------------------------------------------------------------
\* Mutant: the default header wins over the persisted token.
RequestAuth_DefaultFirst(ls, dflt) ==
  IF dflt # Null THEN dflt ELSE IF ls.token # Null THEN Bearer(ls.token) ELSE Null

\* Request interceptor: the Authorization header is the persisted token when
\* there is one, else whatever the default header holds.
RequestAuth(ls, dflt) == IF ls.token # Null THEN Bearer(ls.token) ELSE dflt

Request(method, url, data, ls, dflt) ==
  [method |-> method, url |-> url, data |-> data, auth |-> RequestAuth(ls, dflt)]

\* Mutant: every path counts as auth-sensitive.
IsAuthSensitive_Any(url) == TRUE

\* Response interceptor, rejected branch.
IsAuthSensitive(url) == Includes(url, AUTH_PART) \/ Includes(url, PROFILE_PART)

ForcesLogout(error) ==
  /\ HasStatus(error, 401)
  /\ IsAuthSensitive(error.config.url)

\* Mutant: the interceptor removes only the 'user' entry.
InterceptStorage_UserOnly(error, ls) ==
  IF ForcesLogout(error) THEN [ls EXCEPT !.user = Null] ELSE ls

InterceptStorage(error, ls) == IF ForcesLogout(error) THEN EmptyStorage ELSE ls
\* Mutant: the interceptor does not navigate.
InterceptLocation_Stays(error, loc) == loc

InterceptLocation(error, loc) == IF ForcesLogout(error) THEN "/login" ELSE loc
InterceptRejection(error) == error

\* ------------------------------------------------------------------------
\* Bookkeeping of a step
\* ------------------------------------------------------------------------
\* op: the operation; outcome: "pending" (suspended at an await),
\* "fulfilled" or "rejected"; response: what the transport delivered in this
\* step ([ok |-> body] or [err |-> error]) or Null; thrown: the error the
\* operation rejected with; request: the request sent in this step, as it
\* left the request interceptor, or Null; input: the argument of the call
\* made in this step, where a property needs it, or Null.
Step(op, outcome, response, thrown) ==
  [op |-> op, outcome |-> outcome, response |-> response, thrown |-> thrown,
   request |-> Null, input |-> Null]

Ok(body) == [ok |-> body]
Err(error) == [err |-> error]

Mounted == pc["init"] # "mount"

\* Another request may be sent: the browser keeps a request back while
\* MaxInFlight of them are open (those of the auth store and the API client,
\* of the queries and of the mutations).
CanSend ==
  Cardinality({ op \in Slots : net[op] # NoRequest })
    + Cardinality({ key \in DOMAIN cache : cache[key].fetchStatus = "fetching" })
    + Cardinality({ site \in DOMAIN mut : mut[site].status = "pending" })
    < MaxInFlight

\* A view may start another operation, unless the interceptor has already
\* navigated away and the document is being replaced.
CanCall(op) ==
  /\ Mounted
  /\ location = "/"
  /\ pc[op] = "idle"
  /\ CanSend

Settle(op) ==
  /\ pc' = [pc EXCEPT ![op] = "idle"]
  /\ locals' = [locals EXCEPT ![op] = Null]
  /\ net' = [net EXCEPT ![op] = NoRequest]

\* await apiService.<call>: the request leaves and the operation is suspended
Send(op, at, request, captured) ==
  /\ pc' = [pc EXCEPT ![op] = at]
  /\ locals' = [locals EXCEPT ![op] = captured]
  /\ net' = [net EXCEPT ![op] = Pending(request)]
  /\ last' = [Step(op, "pending", Null, Null) EXCEPT !.request = request]

\* ------------------------------------------------------------------------
\* Router and the components it mounts
\* ------------------------------------------------------------------------
Books == 1..NumBooks

Route(name, arg) == [name |-> name, arg |-> arg]

\* Routes a document can be opened at (the book id is the route parameter).
Routes ==
  { Route(name, 0) :
       name \in {"home", "books", "profile", "favorites", "myReviews", "login"} }
    \cup { Route("book", b) : b \in Books }

ProtectedPages == {"profile", "favorites", "myReviews"}
PublicOnlyPages == {"login"}

\* Mutant: the guards do not wait for the store to finish loading.
Reroute_WhileLoading(route, s) ==
  IF route.name \in ProtectedPages /\ ~s.isAuthenticated THEN Route("login", 0)
  ELSE IF route.name \in PublicOnlyPages /\ s.isAuthenticated THEN Route("home", 0)
  ELSE route

\* ProtectedRoute / PublicRoute: "Loading..." while the store is loading, else
\* <Navigate replace> to /login or to /.
Reroute(route, s) ==
  IF s.loading THEN route
  ELSE IF route.name \in ProtectedPages /\ ~s.isAuthenticated THEN Route("login", 0)
  ELSE IF route.name \in PublicOnlyPages /\ s.isAuthenticated THEN Route("home", 0)
  ELSE route

\* The page component of a guarded route is rendered.
Rendered(route, s) ==
  route.name \in ProtectedPages => (~s.loading /\ s.isAuthenticated)

\* useEffect: if (isAuthenticated && componentError) setComponentError(null)
ClearedWhenAuthenticated(componentError, s) ==
  IF s.isAuthenticated THEN Null ELSE componentError

\* The dashboard after a render with store state s. HomePage mounts it for a
\* signed-in user ({isAuthenticated && <RecommendationDashboard limit={3} />}),
\* with useState(0), useState(null), useState(0); it is then kept, until it is
\* unmounted and its local state lost. getRecommendations counts the calls
\* of apiService.getRecommendations this dashboard has made.
Rerender(d, route, s) ==
  IF ~(route.name = "home" /\ s.isAuthenticated) THEN Null
  ELSE IF d = Null THEN [tabValue |-> 0, refreshKey |-> 0, componentError |-> Null,
                         getRecommendations |-> 0]
  ELSE [d EXCEPT !.componentError = ClearedWhenAuthenticated(@, s)]

\* The step of the auth store has dispatched to the reducer, which returns a
\* new state object each time: AuthProvider renders again, and each function
\* of its context value, which is not memoized, is a new one.
Dispatched(step) ==
  CASE step.op \in {"login", "register", "updateProfile"} -> TRUE
    [] step.op \in {"init", "logout"} -> step.outcome # "pending"
    [] step.op = "refreshProfile" -> step.response # Null /\ "ok" \in DOMAIN step.response
    [] OTHER -> FALSE

\* ProfilePage: useEffect(() => { refreshProfile(); }, [refreshProfile]). The
\* effect is due when the page mounts and whenever refreshProfile has become
\* another function; it is dropped with the page.
Due(was, route, s, route2, s2, dispatched) ==
  /\ route2.name = "profile"
  /\ Rendered(route2, s2)
  /\ was \/ dispatched \/ ~(route.name = "profile" /\ Rendered(route, s))

\* const from = location.state?.from?.pathname || '/'
From(locationState) ==
  IF locationState = Null THEN Route("home", 0) ELSE locationState.from

\* The location /login after a render with store state s, reached by asking
\* for route requested: state is the location's state, which no navigation of
\* the application sets (<Navigate to="/login" replace />, navigate('/login'),
\* the links and a document load pass none); origin records the protected
\* route the router turned away, if any. PublicRoute shows "Loading..."
\* instead of its children while the store is loading, which unmounts the
\* LoginPage: the next one starts with useState(null) and nothing submitted.
Shown(lp, requested, route, s) ==
  IF route.name # "login" THEN Null
  ELSE LET loc == IF lp # Null THEN lp
                  ELSE [state |-> Null,
                        origin |-> IF requested.name \in ProtectedPages
                                     THEN requested ELSE Null,
                        mounted |-> FALSE, awaiting |-> FALSE, error |-> Null]
       IN IF s.loading
            THEN [loc EXCEPT !.mounted = FALSE, !.awaiting = FALSE, !.error = Null]
            ELSE [loc EXCEPT !.mounted = TRUE]

\* The message onSubmit's catch block chooses
LoginMessage(error) ==
  IF HasStatus(error, 401) THEN "Invalid email or password. Please try again."
  ELSE IF /\ error.response # Null
          /\ "data" \in DOMAIN error.response
          /\ error.response.data.message # ""
    THEN error.response.data.message
    ELSE "Login failed. Please try again."

\* setError(message) in the catch block of the onSubmit that awaited login:
\* a state update of a LoginPage that has been unmounted is dropped.
SetError(lp, error) ==
  IF lp # Null /\ lp.mounted /\ lp.awaiting
    THEN [lp EXCEPT !.awaiting = FALSE, !.error = LoginMessage(error)]
    ELSE lp

\* ------------------------------------------------------------------------
\* Query cache (QueryClient) and the queries the views declare
\* ------------------------------------------------------------------------
QueryKey(name, arg) == [name |-> name, arg |-> arg]
FavKey(bookId) == QueryKey("bookFavorite", bookId)
UserFavKey == QueryKey("userFavorites", 0)
TopKey == QueryKey("topRatedBooks", 0)
RecKey(refreshKey) == QueryKey("recommendations", refreshKey)
AiKey(refreshKey) == QueryKey("ai-recommendations", refreshKey)

\* ['book', bookId] and ['bookReviews', bookId, reviewsPage] of BookDetailsPage
\* (the first page of the reviews; the pages of a list share the prefix that
\* invalidateQueries matches).
ReviewKeys == { QueryKey(name, b) : name \in {"book", "bookReviews"}, b \in Books }

QueryKeys ==
  { FavKey(b) : b \in Books } \cup {UserFavKey, QueryKey("myReviews", 0), TopKey}
    \cup { RecKey(k) : k \in 0..MaxRefresh } \cup { AiKey(k) : k \in 0..MaxRefresh }
    \cup ReviewKeys

\* queryFn of each key
QueryUrl(key) ==
  CASE key.name = "bookFavorite" -> FavoriteUrl(key.arg)
    [] key.name = "userFavorites" -> "/books/favorites"
    [] key.name = "myReviews" -> URL_MY_REVIEWS
    [] key.name = "topRatedBooks" -> "/books/top-rated"
    [] key.name = "recommendations" -> "/books/recommendations"
    [] key.name = "ai-recommendations" -> "/books/ai-recommendations"
    [] key.name = "book" -> BookUrl(key.arg)
    [] key.name = "bookReviews" -> ReviewsUrl(key.arg)

\* The queries of endpoints that answer only for a signed-in user: all but
\* the top-rated list and what the book page shows of a book.
GatedKeys == QueryKeys \ ({TopKey} \cup ReviewKeys)
GatedUrls == { QueryUrl(key) : key \in GatedKeys }

\* The queries the dashboard declares.
DashboardKeys == { key \in QueryKeys : key.name \in {"recommendations", "ai-recommendations"} }

\* defaultOptions.queries.retry of the QueryClient
DEFAULT_RETRY == 1

\* Mutant: the recommendation queries fall back to the client's default.
Retry_Default(key) == DEFAULT_RETRY

\* retry: false on the two recommendation queries, else the client's default
Retry(key) ==
  IF key \in DashboardKeys THEN 0 ELSE DEFAULT_RETRY

\* Lists of books a response can carry.
BookLists == {<<>>} \cup { <<b>> : b \in Books }
InList(b, list) == \E i \in 1..Len(list) : list[i] = b

\* Response bodies of each query
QueryResponses(key) ==
  CASE key.name = "bookFavorite" ->
         { [favorited |-> f, bookId |-> key.arg] : f \in BOOLEAN }
    [] key.name = "userFavorites" -> { [content |-> l] : l \in BookLists }
    [] key.name = "myReviews" -> { [content |-> l] : l \in BookLists }
    [] key.name = "topRatedBooks" -> { [content |-> l] : l \in BookLists }
    [] key.name = "recommendations" -> { [recommendations |-> l] : l \in BookLists }
    [] key.name = "ai-recommendations" ->
         { [recommendations |-> l, aiAvailable |-> a] : l \in BookLists, a \in BOOLEAN }
    [] key.name = "book" -> { [id |-> key.arg] }
    [] key.name = "bookReviews" -> { [content |-> l, bookId |-> key.arg] : l \in BookLists }

\* Every response body.
Answers == UNION { QueryResponses(key) : key \in QueryKeys }

\* A cache entry: status "pending" (no data yet), "success" or "error";
\* fetchStatus "idle", "fetching" (a request is in flight) or "waiting" (the
\* retry delay after a failed attempt is running); calls counts the
\* invocations of the query function in the present or last fetch.
NoEntry ==
  [status |-> "pending", fetchStatus |-> "idle", data |-> Null,
   isInvalidated |-> FALSE, calls |-> 0]

\* isLoading: fetching for the first time
IsLoading(entry) == entry.status = "pending" /\ entry.fetchStatus # "idle"

\* The page shows a BookCard of book b: BooksPage lists the books, HomePage
\* those of its top-rated list.
HasCard(b, route, c) ==
  \/ route.name = "books"
  \/ /\ route.name = "home"
     /\ c[TopKey].data # Null
     /\ InList(b, c[TopKey].data.content)

\* The components that use the query and are mounted.
Observed(key, route, s, d, c) ==
  CASE key.name = "bookFavorite" ->
         \/ s.isAuthenticated /\ HasCard(key.arg, route, c)
         \/ route.name = "book" /\ route.arg = key.arg
    [] key.name = "userFavorites" -> route.name = "favorites" /\ Rendered(route, s)
    [] key.name = "myReviews" -> route.name = "myReviews" /\ Rendered(route, s)
    [] key.name = "topRatedBooks" -> route.name = "home"
    [] key.name \in {"recommendations", "ai-recommendations"} ->
         d # Null /\ d.refreshKey = key.arg
    [] key.name \in {"book", "bookReviews"} -> route.name = "book" /\ route.arg = key.arg

\* Mutant: the favorite-status query is not gated.
Enabled_FavoriteAlways(key, s, d) ==
  CASE key.name = "bookFavorite" -> TRUE
    [] key.name \in {"userFavorites", "myReviews", "recommendations"} -> s.isAuthenticated
    [] key.name = "topRatedBooks" -> TRUE
    [] key.name = "ai-recommendations" -> s.isAuthenticated /\ d.tabValue = 1
    [] key.name \in {"book", "bookReviews"} -> key.arg # 0

\* The enabled option of each query
Enabled(key, s, d) ==
  CASE key.name = "bookFavorite" -> key.arg # 0 /\ s.isAuthenticated
    [] key.name \in {"userFavorites", "myReviews", "recommendations"} -> s.isAuthenticated
    [] key.name = "topRatedBooks" -> TRUE
    [] key.name = "ai-recommendations" -> s.isAuthenticated /\ d.tabValue = 1
    [] key.name \in {"book", "bookReviews"} -> key.arg # 0

\* An enabled observer exists: invalidateQueries refetches such a query.
Active(key, route, s, d, c) == Observed(key, route, s, d, c) /\ Enabled(key, s, d)

\* A query that failed is fetched again when an observer of it mounts or
\* becomes enabled: the entry is marked for the fetch.
Activated(c, route, s, d, route2, s2, d2) ==
  [key \in QueryKeys |->
     IF /\ c[key].status = "error"
        /\ c[key].fetchStatus = "idle"
        /\ ~Active(key, route, s, d, c)
        /\ Active(key, route2, s2, d2, c)
       THEN [c[key] EXCEPT !.isInvalidated = TRUE]
       ELSE c[key]]

\* What a step of the auth store or of the generic API call does to the
\* views: the router renders route (the present one, or the one the handler
\* navigates to) with the new store state, and with it the dashboard and the
\* login page lp; no view request is sent. A call of refreshProfile is the
\* run of ProfilePage's effect, its only caller.
Rendering(route, lp) ==
  /\ page' = Reroute(route, state')
  /\ dash' = Rerender(dash, page', state')
  /\ loginPage' = Shown(lp, route, page', state')
  /\ profileDue' = Due(profileDue /\ ~(last'.op = "refreshProfile" /\ pc["refreshProfile"] = "idle"),
                       page, state, page', state', Dispatched(last'))
  /\ sent' = Null
  /\ cache' = Activated(cache, page, state, dash, page', state', dash')
  /\ UNCHANGED <<mut, searchQuery>>

ViewFrame == Rendering(page, loginPage)

\* ------------------------------------------------------------------------
\* Startup: initializeAuth
\* ------------------------------------------------------------------------
\* Users that an earlier session may have persisted.
LoginUser(response) ==
  [id |-> response.userId, name |-> response.name, email |-> response.email,
   emailVerified |-> TRUE, active |-> TRUE, createdAt |-> "now",
   reviewCount |-> 0, favoriteBooksCount |-> 0]

\* What a document may find persisted: a token the backend may answer again,
\* the retired one or none; the user of a login or of a profile, an entry
\* that is not JSON, or none.
StartupStorages ==
  [token : { <<"jwt", i>> : i \in 1..NumJwt } \cup {STALE_TOKEN, Null},
   user : { JSONstringify(u) : u \in { LoginUser(r) : r \in JwtResponses } \cup Profiles }
            \cup {Null, <<"raw">>}]

\* if (token && userStr)
HasSession(ls) == ls.token # Null /\ ls.user # Null

\* What initializeAuth leaves in storage when there is nothing to validate.
InitAbsentStorage(ls) == ls

\* Mutant: a failed validation removes only the token.
InitInvalidStorage_TokenOnly(ls) == [ls EXCEPT !.token = Null]

\* What initializeAuth leaves in storage when validation fails.
InitInvalidStorage(ls) == [ls EXCEPT !.token = Null, !.user = Null]

\* Mutant: without a session to validate, nothing is dispatched.
InitializeAuth_Silent ==
  /\ pc["init"] = "mount"
  /\ IF HasSession(localStorage)
       THEN /\ Send("init", "awaitValidate",
                    Request("get", "/auth/validate", Null, localStorage, defaultAuth),
                    [token |-> localStorage.token, userStr |-> localStorage.user])
            /\ UNCHANGED <<state, localStorage>>
       ELSE /\ UNCHANGED state
            /\ localStorage' = InitAbsentStorage(localStorage)
            /\ pc' = [pc EXCEPT !["init"] = "done"]
            /\ last' = Step("init", "fulfilled", Null, Null)
            /\ UNCHANGED <<locals, net>>
  /\ UNCHANGED <<defaultAuth, location>>
  /\ ViewFrame

InitializeAuth ==
  /\ pc["init"] = "mount"
  /\ IF HasSession(localStorage)
       THEN /\ Send("init", "awaitValidate",
                    Request("get", "/auth/validate", Null, localStorage, defaultAuth),
                    [token |-> localStorage.token, userStr |-> localStorage.user])
            /\ UNCHANGED <<state, localStorage>>
       ELSE /\ state' = authReducer(state, SetLoading(FALSE))
            /\ localStorage' = InitAbsentStorage(localStorage)
            /\ pc' = [pc EXCEPT !["init"] = "done"]
            /\ last' = Step("init", "fulfilled", Null, Null)
            /\ UNCHANGED <<locals, net>>
  /\ UNCHANGED <<defaultAuth, location>>
  /\ ViewFrame

InitDone(response) ==
  /\ pc' = [pc EXCEPT !["init"] = "done"]
  /\ locals' = [locals EXCEPT !["init"] = Null]
  /\ net' = [net EXCEPT !["init"] = NoRequest]
  /\ last' = Step("init", "fulfilled", response, Null)

\* validateToken() resolved with {valid, ...}
ValidateResolved ==
  /\ pc["init"] = "awaitValidate"
  /\ \E valid \in BOOLEAN :
       /\ IF valid /\ ~ParseThrows(locals["init"].userStr)
            THEN /\ defaultAuth' = Bearer(locals["init"].token)
                 /\ state' = authReducer(state,
                      LoginSuccess(JSONparse(locals["init"].userStr), locals["init"].token))
                 /\ UNCHANGED localStorage
            ELSE \* valid=false, or JSON.parse threw into the catch block
                 /\ localStorage' = InitInvalidStorage(localStorage)
                 /\ state' = authReducer(state, LoginFailure)
                 /\ UNCHANGED defaultAuth
       /\ InitDone(Ok([valid |-> valid]))
  /\ UNCHANGED location
  /\ ViewFrame

\* validateToken() rejected
ValidateRejected ==
  /\ pc["init"] = "awaitValidate"
  /\ \E e \in TransportErrors(net["init"].url) :
       /\ localStorage' = InitInvalidStorage(InterceptStorage(e, localStorage))
       /\ location' = InterceptLocation(e, location)
       /\ state' = authReducer(state, LoginFailure)
       /\ InitDone(Err(e))
  /\ UNCHANGED defaultAuth
  /\ ViewFrame

\* ------------------------------------------------------------------------
\* login
\* ------------------------------------------------------------------------
LoginRequest(email, password, ls, dflt) ==
  Request("post", URL_LOGIN, [email |-> email, password |-> password], ls, dflt)

\* Mutant: login persists the user but not the token.
LoginStorage_NoToken(response, ls) ==
  [ls EXCEPT !.user = JSONstringify(LoginUser(response))]

\* localStorage.setItem('token', ...); localStorage.setItem('user', ...)
LoginStorage(response, ls) ==
  [ls EXCEPT !.token = response.token, !.user = JSONstringify(LoginUser(response))]

\* apiService.setAuthToken(response.token)
LoginHeader(response) == Bearer(response.token)

LoginSucceeded(response, s) ==
  authReducer(s, LoginSuccess(LoginUser(response), response.token))

\* Mutant: the catch block only stops the spinner.
LoginFailed_LoadingOnly(s) == authReducer(s, SetLoading(FALSE))

\* catch (error) { dispatch LOGIN_FAILURE; throw error }
LoginFailed(s) == authReducer(s, LoginFailure)
LoginRethrow(error) == error

\* LoginPage.onSubmit, the caller in the views: setError(null); await login(...)
LoginCall ==
  /\ CanCall("login")
  /\ \E c \in RegisterInputs :
       Send("login", "awaitLogin",
            LoginRequest(c.email, c.password, localStorage, defaultAuth),
            [email |-> c.email, password |-> c.password])
  /\ state' = authReducer(state, SetLoading(TRUE))
  /\ UNCHANGED <<localStorage, defaultAuth, location>>
  /\ Rendering(page, IF loginPage # Null /\ loginPage.mounted
                       THEN [loginPage EXCEPT !.awaiting = TRUE, !.error = Null]
                       ELSE loginPage)

\* ... and onSubmit goes on: navigate(from, { replace: true })
LoginResolved ==
  /\ pc["login"] = "awaitLogin"
  /\ \E r \in JwtResponses :
       /\ localStorage' = LoginStorage(r, localStorage)
       /\ defaultAuth' = LoginHeader(r)
       /\ state' = LoginSucceeded(r, state)
       /\ last' = Step("login", "fulfilled", Ok(r), Null)
  /\ Settle("login")
  /\ UNCHANGED location
  /\ Rendering(IF loginPage = Null THEN page ELSE From(loginPage.state), loginPage)

LoginRejected ==
  /\ pc["login"] = "awaitLogin"
  /\ \E e \in TransportErrors(net["login"].url) :
       /\ localStorage' = InterceptStorage(e, localStorage)
       /\ location' = InterceptLocation(e, location)
       /\ state' = LoginFailed(state)
       /\ last' = Step("login", "rejected", Err(e), LoginRethrow(InterceptRejection(e)))
       /\ Rendering(page, SetError(loginPage, InterceptRejection(e)))
  /\ Settle("login")
  /\ UNCHANGED defaultAuth

\* ------------------------------------------------------------------------
\* register
\* ------------------------------------------------------------------------
\* if (response.success && response.data)
Accepted(response) == response.success /\ response.data # Null

\* Mutant: register logs in with the display name instead of the email.
RegisterLoginRequest_Name(userData, ls, dflt) ==
  LoginRequest(userData.name, userData.password, ls, dflt)

\* await login(userData.email, userData.password)
RegisterLoginRequest(userData, ls, dflt) ==
  LoginRequest(userData.email, userData.password, ls, dflt)

RegisterCall ==
  /\ CanCall("register")
  /\ \E userData \in RegisterInputs :
       Send("register", "awaitRegister",
            Request("post", "/auth/register", userData, localStorage, defaultAuth), userData)
  /\ state' = authReducer(state, SetLoading(TRUE))
  /\ UNCHANGED <<localStorage, defaultAuth, location>>
  /\ ViewFrame

\* apiService.register() resolved with an ApiResponse
RegisterResolved ==
  /\ pc["register"] = "awaitRegister"
  /\ \E response \in ApiResponses :
       IF Accepted(response)
         THEN /\ state' = authReducer(state, SetLoading(TRUE))
              /\ pc' = [pc EXCEPT !["register"] = "awaitLogin"]
              /\ LET request == RegisterLoginRequest(locals["register"], localStorage,
                                                      defaultAuth)
                 IN /\ net' = [net EXCEPT !["register"] = Pending(request)]
                    /\ last' = [Step("register", "pending", Ok(response), Null)
                                  EXCEPT !.request = request]
              /\ UNCHANGED locals
         ELSE \* dispatch LOGIN_FAILURE; throw; the catch dispatches it again
              /\ state' = authReducer(authReducer(state, LoginFailure), LoginFailure)
              /\ last' = Step("register", "rejected", Ok(response),
                              LocalError(OrElse(response.message, "Registration failed")))
              /\ Settle("register")
  /\ UNCHANGED <<localStorage, defaultAuth, location>>
  /\ ViewFrame

\* apiService.register() rejected
RegisterRejected ==
  /\ pc["register"] = "awaitRegister"
  /\ \E e \in TransportErrors(net["register"].url) :
       /\ localStorage' = InterceptStorage(e, localStorage)
       /\ location' = InterceptLocation(e, location)
       /\ state' = authReducer(state, LoginFailure)
       /\ last' = Step("register", "rejected", Err(e), InterceptRejection(e))
  /\ Settle("register")
  /\ UNCHANGED defaultAuth
  /\ ViewFrame

\* the login() awaited by register() resolved
RegisterLoginResolved ==
  /\ pc["register"] = "awaitLogin"
  /\ \E r \in JwtResponses :
       /\ localStorage' = LoginStorage(r, localStorage)
       /\ defaultAuth' = LoginHeader(r)
       /\ state' = LoginSucceeded(r, state)
       /\ last' = Step("register", "fulfilled", Ok(r), Null)
  /\ Settle("register")
  /\ UNCHANGED location
  /\ ViewFrame

\* the login() awaited by register() rejected: login's catch, then register's
RegisterLoginRejected ==
  /\ pc["register"] = "awaitLogin"
  /\ \E e \in TransportErrors(net["register"].url) :
       /\ localStorage' = InterceptStorage(e, localStorage)
       /\ location' = InterceptLocation(e, location)
       /\ state' = authReducer(LoginFailed(state), LoginFailure)
       /\ last' = Step("register", "rejected", Err(e), LoginRethrow(InterceptRejection(e)))
  /\ Settle("register")
  /\ UNCHANGED defaultAuth
  /\ ViewFrame

\* ------------------------------------------------------------------------
\* logout
\* ------------------------------------------------------------------------
\* Mutant: logout forgets the 'user' entry.
LogoutStorage_TokenOnly(ls) == [ls EXCEPT !.token = Null]

\* finally { removeItem('token'); removeItem('user'); clearAuthToken(); LOGOUT }
LogoutStorage(ls) == [ls EXCEPT !.token = Null, !.user = Null]
LogoutHeader(dflt) == Null
LoggedOut(s) == authReducer(s, [type |-> "LOGOUT", payload |-> Null])

LogoutCall ==
  /\ CanCall("logout")
  /\ Send("logout", "awaitLogout",
          Request("post", "/auth/logout", Null, localStorage, defaultAuth), Null)
  /\ UNCHANGED <<state, localStorage, defaultAuth, location>>
  /\ ViewFrame

\* Header.handleLogout, the only caller of logout, goes on: navigate('/')
LogoutResolved ==
  /\ pc["logout"] = "awaitLogout"
  /\ localStorage' = LogoutStorage(localStorage)
  /\ defaultAuth' = LogoutHeader(defaultAuth)
  /\ state' = LoggedOut(state)
  /\ last' = Step("logout", "fulfilled", Ok(Null), Null)
  /\ Settle("logout")
  /\ UNCHANGED location
  /\ Rendering(Route("home", 0), Null)

\* catch (error) { console.error } finally { ... }
LogoutRejected ==
  /\ pc["logout"] = "awaitLogout"
  /\ \E e \in TransportErrors(net["logout"].url) :
       /\ localStorage' = LogoutStorage(InterceptStorage(e, localStorage))
       /\ location' = InterceptLocation(e, location)
       /\ last' = Step("logout", "fulfilled", Err(e), Null)
  /\ defaultAuth' = LogoutHeader(defaultAuth)
  /\ state' = LoggedOut(state)
  /\ Settle("logout")
  /\ Rendering(Route("home", 0), Null)

\* ------------------------------------------------------------------------
\* updateProfile
\* ------------------------------------------------------------------------
\* localStorage.setItem('user', JSON.stringify(response.data))
ProfileStorage(user, ls) == [ls EXCEPT !.user = JSONstringify(user)]
ProfileAdopted(user, s) == authReducer(s, [type |-> "SET_USER", payload |-> user])

UpdateProfileCall ==
  /\ CanCall("updateProfile")
  /\ Send("updateProfile", "awaitUpdate",
          Request("put", URL_PROFILE, Null, localStorage, defaultAuth), Null)
  /\ state' = authReducer(state, SetLoading(TRUE))
  /\ UNCHANGED <<localStorage, defaultAuth, location>>
  /\ ViewFrame

UpdateProfileResolved ==
  /\ pc["updateProfile"] = "awaitUpdate"
  /\ Served(net["updateProfile"])
  /\ \E response \in ApiResponses :
       IF Accepted(response)
         THEN /\ localStorage' = ProfileStorage(response.data, localStorage)
              /\ state' = ProfileAdopted(response.data, state)
              /\ last' = Step("updateProfile", "fulfilled", Ok(response), Null)
         ELSE /\ state' = authReducer(state, SetLoading(FALSE))
              /\ last' = Step("updateProfile", "rejected", Ok(response),
                              LocalError(OrElse(response.message, "Profile update failed")))
              /\ UNCHANGED localStorage
  /\ Settle("updateProfile")
  /\ UNCHANGED <<defaultAuth, location>>
  /\ ViewFrame

UpdateProfileRejected ==
  /\ pc["updateProfile"] = "awaitUpdate"
  /\ \E e \in TransportErrors(net["updateProfile"].url) :
       /\ localStorage' = InterceptStorage(e, localStorage)
       /\ location' = InterceptLocation(e, location)
       /\ last' = Step("updateProfile", "rejected", Err(e), InterceptRejection(e))
  /\ state' = authReducer(state, SetLoading(FALSE))
  /\ Settle("updateProfile")
  /\ UNCHANGED defaultAuth
  /\ ViewFrame

\* ------------------------------------------------------------------------
\* changePassword
\* ------------------------------------------------------------------------
MISMATCH_MESSAGE == "New password and confirm password do not match"

\* Mutant: the confirmation is never compared.
RejectedLocally_Never(passwordData) == FALSE

\* if (passwordData.newPassword !== passwordData.confirmPassword) throw
RejectedLocally(passwordData) == passwordData.newPassword # passwordData.confirmPassword

ChangePasswordRequest(passwordData, ls, dflt) ==
  Request("put", "/auth/change-password",
          [currentPassword |-> passwordData.currentPassword,
           newPassword |-> passwordData.newPassword], ls, dflt)

ChangePasswordCall ==
  /\ CanCall("changePassword")
  /\ \E passwordData \in PasswordInputs :
       IF RejectedLocally(passwordData)
         THEN /\ last' = [Step("changePassword", "rejected", Null,
                               LocalError(MISMATCH_MESSAGE))
                            EXCEPT !.input = passwordData]
              /\ UNCHANGED <<pc, locals, net>>
         ELSE LET request == ChangePasswordRequest(passwordData, localStorage, defaultAuth)
              IN /\ pc' = [pc EXCEPT !["changePassword"] = "awaitChange"]
                 /\ locals' = [locals EXCEPT !["changePassword"] = Null]
                 /\ net' = [net EXCEPT !["changePassword"] = Pending(request)]
                 /\ last' = [Step("changePassword", "pending", Null, Null)
                               EXCEPT !.request = request, !.input = passwordData]
  /\ UNCHANGED <<state, localStorage, defaultAuth, location>>
  /\ ViewFrame

\* if (!response.success) throw new Error(response.message || ...)
ChangePasswordResolved ==
  /\ pc["changePassword"] = "awaitChange"
  /\ \E response \in ApiResponses :
       last' = IF response.success
                 THEN Step("changePassword", "fulfilled", Ok(response), Null)
                 ELSE Step("changePassword", "rejected", Ok(response),
                           LocalError(OrElse(response.message, "Password change failed")))
  /\ Settle("changePassword")
  /\ UNCHANGED <<state, localStorage, defaultAuth, location>>
  /\ ViewFrame

\* catch (error) { throw error }
ChangePasswordRejected ==
  /\ pc["changePassword"] = "awaitChange"
  /\ \E e \in TransportErrors(net["changePassword"].url) :
       /\ localStorage' = InterceptStorage(e, localStorage)
       /\ location' = InterceptLocation(e, location)
       /\ last' = Step("changePassword", "rejected", Err(e), InterceptRejection(e))
  /\ Settle("changePassword")
  /\ UNCHANGED <<state, defaultAuth>>
  /\ ViewFrame

\* ------------------------------------------------------------------------
\* refreshProfile
\* ------------------------------------------------------------------------
\* if (!state.isAuthenticated) return;
RefreshProfileCall ==
  /\ CanCall("refreshProfile")
  /\ IF ~state.isAuthenticated
       THEN /\ last' = Step("refreshProfile", "fulfilled", Null, Null)
            /\ UNCHANGED <<pc, locals, net>>
       ELSE /\ Send("refreshProfile", "awaitProfile",
                    Request("get", URL_PROFILE, Null, localStorage, defaultAuth), Null)
  /\ UNCHANGED <<state, localStorage, defaultAuth, location>>
  /\ ViewFrame

RefreshProfileResolved ==
  /\ pc["refreshProfile"] = "awaitProfile"
  /\ Served(net["refreshProfile"])
  /\ \E profile \in Profiles :
       /\ localStorage' = ProfileStorage(profile, localStorage)
       /\ state' = ProfileAdopted(profile, state)
       /\ last' = Step("refreshProfile", "fulfilled", Ok(profile), Null)
  /\ Settle("refreshProfile")
  /\ UNCHANGED <<defaultAuth, location>>
  /\ ViewFrame

\* Mutant: the catch block rethrows.
RefreshProfileRejected_Rethrows ==
  /\ pc["refreshProfile"] = "awaitProfile"
  /\ \E e \in TransportErrors(net["refreshProfile"].url) :
       /\ localStorage' = InterceptStorage(e, localStorage)
       /\ location' = InterceptLocation(e, location)
       /\ last' = Step("refreshProfile", "rejected", Err(e), InterceptRejection(e))
  /\ Settle("refreshProfile")
  /\ UNCHANGED <<state, defaultAuth>>
  /\ ViewFrame

\* catch (error) { console.error } -- not rethrown
RefreshProfileRejected ==
  /\ pc["refreshProfile"] = "awaitProfile"
  /\ \E e \in TransportErrors(net["refreshProfile"].url) :
       /\ localStorage' = InterceptStorage(e, localStorage)
       /\ location' = InterceptLocation(e, location)
       /\ last' = Step("refreshProfile", "fulfilled", Err(e), Null)
  /\ Settle("refreshProfile")
  /\ UNCHANGED <<state, defaultAuth>>
  /\ ViewFrame

\* ------------------------------------------------------------------------
\* Any other API call made by a view (getBooks, getMyReviews)
\* ------------------------------------------------------------------------
ApiCall ==
  /\ CanCall("api")
  /\ \E url \in {URL_BOOKS, URL_MY_REVIEWS} :
       Send("api", "awaitApi", Request("get", url, Null, localStorage, defaultAuth), Null)
  /\ UNCHANGED <<state, localStorage, defaultAuth, location>>
  /\ ViewFrame

ApiResolved ==
  /\ pc["api"] = "awaitApi"
  /\ Served(net["api"])
  /\ last' = Step("api", "fulfilled", Ok(Null), Null)
  /\ Settle("api")
  /\ UNCHANGED <<state, localStorage, defaultAuth, location>>
  /\ ViewFrame

ApiRejected ==
  /\ pc["api"] = "awaitApi"
  /\ \E e \in TransportErrors(net["api"].url) :
       /\ localStorage' = InterceptStorage(e, localStorage)
       /\ location' = InterceptLocation(e, location)
       /\ last' = Step("api", "rejected", Err(e), InterceptRejection(e))
  /\ Settle("api")
  /\ UNCHANGED <<state, defaultAuth>>
  /\ ViewFrame

\* ------------------------------------------------------------------------
\* Query observers: fetching, retrying, settling
\* ------------------------------------------------------------------------
\* The views are alive: the interceptor has not started replacing the document.
ViewsLive == location = "/"

\* What a step of a view leaves alone in the auth store and the API client.
StoreFrame == UNCHANGED <<state, defaultAuth, pc, locals, net, last>>

\* The dashboard's effects run when the entry of its personalized query
\* changes: useEffect on [error, isLoading, recommendationData], then the
\* effect that clears the message for a signed-in user.
DashAfter(key, c) ==
  IF dash = Null \/ key # RecKey(dash.refreshKey) THEN dash
  ELSE LET rec == c[key]
           shown == IF rec.status = "error" /\ ~IsLoading(rec)
                      THEN LocalError("Unable to load recommendations")
                      ELSE IF rec.status # "error" /\ rec.data # Null
                        THEN Null
                        ELSE dash.componentError
       IN [dash EXCEPT !.componentError = ClearedWhenAuthenticated(shown, state)]

\* A fetch begins: an entry without data shows as loading again.
FetchStart(entry) ==
  [entry EXCEPT !.fetchStatus = "fetching", !.calls = 1,
                !.status = IF entry.data = Null THEN "pending" ELSE @]

\* An enabled observer finds that its query has never been fetched, or is
\* marked for a fetch, and fetches it. (Data older than the staleTime of five
\* minutes is not modelled.)
QueryFetch(keys) ==
  /\ ViewsLive
  /\ \E key \in keys :
       /\ Active(key, page, state, dash, cache)
       /\ cache[key].fetchStatus = "idle"
       /\ cache[key].status = "pending" \/ cache[key].isInvalidated
       /\ CanSend
       /\ cache' = [cache EXCEPT ![key] = FetchStart(@)]
       /\ sent' = Request("get", QueryUrl(key), Null, localStorage, defaultAuth)
       /\ dash' = IF key.name = "recommendations"
                    THEN [DashAfter(key, cache') EXCEPT !.getRecommendations = @ + 1]
                    ELSE DashAfter(key, cache')
  /\ StoreFrame
  /\ UNCHANGED <<localStorage, location, page, mut, searchQuery, loginPage, profileDue>>

\* The retry delay has run out: the query function is invoked again, unless
\* the last observer has gone, which cancels the retry.
QueryRetry(keys) ==
  /\ ViewsLive
  /\ \E key \in keys :
       /\ cache[key].fetchStatus = "waiting"
       /\ IF Observed(key, page, state, dash, cache)
            THEN /\ CanSend
                 /\ cache' = [cache EXCEPT ![key] =
                               [@ EXCEPT !.fetchStatus = "fetching", !.calls = @ + 1]]
                 /\ sent' = Request("get", QueryUrl(key), Null, localStorage, defaultAuth)
            ELSE /\ cache' = [cache EXCEPT ![key] =
                               [@ EXCEPT !.fetchStatus = "idle", !.status = "error",
                                         !.isInvalidated = FALSE]]
                 /\ sent' = Null
       /\ dash' = DashAfter(key, cache')
  /\ StoreFrame
  /\ UNCHANGED <<localStorage, location, page, mut, searchQuery, loginPage, profileDue>>

\* The request of a query is answered with one of its bodies among answers.
QueryResolved(keys, answers) ==
  /\ ViewsLive
  /\ \E key \in keys :
       /\ cache[key].fetchStatus = "fetching"
       /\ \E body \in QueryResponses(key) \cap answers :
            cache' = [cache EXCEPT ![key] =
                        [@ EXCEPT !.status = "success", !.fetchStatus = "idle",
                                  !.data = body, !.isInvalidated = FALSE]]
       /\ dash' = DashAfter(key, cache')
  /\ sent' = Null
  /\ StoreFrame
  /\ UNCHANGED <<localStorage, location, page, mut, searchQuery, loginPage, profileDue>>

\* The request failed: retried after a delay while failureCount < retry,
\* else the error is surfaced.
QueryRejected(keys) ==
  /\ ViewsLive
  /\ \E key \in keys :
       /\ cache[key].fetchStatus = "fetching"
       /\ \E e \in TransportErrors(QueryUrl(key)) :
            /\ localStorage' = InterceptStorage(e, localStorage)
            /\ location' = InterceptLocation(e, location)
       /\ cache' = [cache EXCEPT ![key] =
                      IF @.calls <= Retry(key)
                        THEN [@ EXCEPT !.fetchStatus = "waiting"]
                        ELSE [@ EXCEPT !.fetchStatus = "idle", !.status = "error",
                                       !.isInvalidated = FALSE]]
       /\ dash' = DashAfter(key, cache')
  /\ sent' = Null
  /\ StoreFrame
  /\ UNCHANGED <<page, mut, searchQuery, loginPage, profileDue>>

\* A link of the application: the router shows another route, the cache stays.
Navigate(routes) ==
  /\ ViewsLive
  /\ \E route \in routes :
       /\ page' = Reroute(route, state)
       /\ loginPage' = Shown(Null, route, page', state)
       /\ profileDue' = Due(profileDue, page, state, page', state, FALSE)
  /\ dash' = Rerender(dash, page', state)
  /\ cache' = Activated(cache, page, state, dash, page', state, dash')
  /\ sent' = Null
  /\ StoreFrame
  /\ UNCHANGED <<localStorage, location, mut, searchQuery>>

\* ------------------------------------------------------------------------
\* Favorite mutations (FavoriteButton, BookDetailsPage, FavoritesPage)
\* ------------------------------------------------------------------------
\* The components that hold a mutation: FavoriteButton, BookDetailsPage,
\* FavoritesPage and RecommendationDashboard; submitReviewMutation of
\* BookDetailsPage, reviewMutation and deleteReviewMutation of MyReviewsPage.
Sites ==
  {"button", "details", "favorites", "feedback", "submitReview", "reviewMutation",
   "deleteReview"}

IdleMutation == [status |-> "idle", variables |-> Null]

\* favoriteData?.favorited || false
IsFavorited(entry) == entry.data # Null /\ entry.data.favorited

\* removeFromFavoritesMutation.mutate() or addToFavoritesMutation.mutate()
StartFavorite(site, bookId, favorited) ==
  /\ CanSend
  /\ mut' = [mut EXCEPT ![site] =
               [status |-> "pending",
                variables |-> [kind |-> IF favorited THEN "remove" ELSE "add",
                               bookId |-> bookId]]]
  /\ sent' = Request(IF favorited THEN "delete" ELSE "post", FavoriteUrl(bookId), Null,
                     localStorage, defaultAuth)

\* FavoriteButton.handleFavoriteToggle (the button is disabled while loading)
ToggleFromButton ==
  /\ ViewsLive
  /\ state.isAuthenticated
  /\ mut["button"].status # "pending"
  /\ \E b \in Books :
       /\ HasCard(b, page, cache)
       /\ ~IsLoading(cache[FavKey(b)])
       /\ StartFavorite("button", b, IsFavorited(cache[FavKey(b)]))
  /\ StoreFrame
  /\ UNCHANGED <<localStorage, location, page, dash, cache, searchQuery, loginPage, profileDue>>

\* BookDetailsPage.handleFavoriteToggle
ToggleFromDetails ==
  /\ ViewsLive
  /\ page.name = "book"
  /\ mut["details"].status # "pending"
  /\ ~IsLoading(cache[FavKey(page.arg)])
  /\ IF ~state.isAuthenticated
       THEN /\ page' = Reroute(Route("login", 0), state)
            /\ loginPage' = Shown(Null, Route("login", 0), page', state)
            /\ profileDue' = FALSE
            /\ sent' = Null
            /\ UNCHANGED mut
       ELSE /\ StartFavorite("details", page.arg, IsFavorited(cache[FavKey(page.arg)]))
            /\ UNCHANGED <<page, loginPage, profileDue>>
  /\ StoreFrame
  /\ UNCHANGED <<localStorage, location, dash, cache, searchQuery>>

\* FavoritesPage.handleRemoveFromFavorites, confirmed
RemoveFromFavorites ==
  /\ ViewsLive
  /\ page.name = "favorites"
  /\ Rendered(page, state)
  /\ mut["favorites"].status # "pending"
  /\ cache[UserFavKey].data # Null
  /\ \E b \in Books :
       /\ InList(b, cache[UserFavKey].data.content)
       /\ StartFavorite("favorites", b, TRUE)
  /\ StoreFrame
  /\ UNCHANGED <<localStorage, location, page, dash, cache, searchQuery, loginPage, profileDue>>

\* A review mutation is sent. A user has at most one review of a book: the
\* model names a review by its book.
StartReview(site, kind, bookId) ==
  /\ CanSend
  /\ mut' = [mut EXCEPT ![site] =
               [status |-> "pending", variables |-> [kind |-> kind, bookId |-> bookId]]]
  /\ sent' = Request(CASE kind = "create" -> "post" [] kind = "update" -> "put"
                        [] kind = "delete" -> "delete",
                     IF kind = "create" THEN ReviewsUrl(bookId) ELSE ReviewUrl(bookId),
                     IF kind = "delete" THEN Null ELSE [rating |-> 5, reviewText |-> ""],
                     localStorage, defaultAuth)

\* BookDetailsPage.handleReviewSubmit, from the review dialog of a book that
\* has loaded
HandleReviewSubmit ==
  /\ ViewsLive
  /\ page.name = "book"
  /\ cache[QueryKey("book", page.arg)].data # Null
  /\ mut["submitReview"].status # "pending"
  /\ IF ~state.isAuthenticated
       THEN /\ page' = Reroute(Route("login", 0), state)
            /\ loginPage' = Shown(Null, Route("login", 0), page', state)
            /\ profileDue' = FALSE
            /\ sent' = Null
            /\ UNCHANGED mut
       ELSE /\ StartReview("submitReview", "create", page.arg)
            /\ UNCHANGED <<page, loginPage, profileDue>>
  /\ StoreFrame
  /\ UNCHANGED <<localStorage, location, dash, cache, searchQuery>>

\* MyReviewsPage.handleReviewSubmit: the review of the selected book is
\* updated when it is one of the list (currentReview.id > 0), else created.
MyReviewSubmit ==
  /\ ViewsLive
  /\ page.name = "myReviews"
  /\ Rendered(page, state)
  /\ mut["reviewMutation"].status # "pending"
  /\ cache[QueryKey("myReviews", 0)].data # Null
  /\ \E b \in Books :
       StartReview("reviewMutation",
                   IF InList(b, cache[QueryKey("myReviews", 0)].data.content)
                     THEN "update" ELSE "create", b)
  /\ StoreFrame
  /\ UNCHANGED <<localStorage, location, page, dash, cache, searchQuery, loginPage, profileDue>>

\* MyReviewsPage.handleReviewDelete, confirmed
HandleReviewDelete ==
  /\ ViewsLive
  /\ page.name = "myReviews"
  /\ Rendered(page, state)
  /\ mut["deleteReview"].status # "pending"
  /\ cache[QueryKey("myReviews", 0)].data # Null
  /\ \E b \in Books :
       /\ InList(b, cache[QueryKey("myReviews", 0)].data.content)
       /\ StartReview("deleteReview", "delete", b)
  /\ StoreFrame
  /\ UNCHANGED <<localStorage, location, page, dash, cache, searchQuery, loginPage, profileDue>>

\* onSuccess of each mutation: the query keys it invalidates
Invalidates(site, variables, key) ==
  CASE site = "button" -> key = FavKey(variables.bookId) \/ key.name = "userFavorites"
    [] site = "details" -> key = FavKey(variables.bookId)
    [] site = "favorites" -> key.name = "userFavorites"
    [] site = "feedback" -> FALSE
    [] site = "submitReview" ->
         key = QueryKey("bookReviews", variables.bookId) \/ key = QueryKey("book", variables.bookId)
    [] site \in {"reviewMutation", "deleteReview"} -> key.name = "myReviews"

\* invalidateQueries on one entry: marked invalid; a fetch in flight for an
\* active query is cancelled, so that the query is fetched again.
Invalidate(entry, active) ==
  IF entry = NoEntry THEN entry
  ELSE IF active /\ entry.fetchStatus # "idle"
    THEN [entry EXCEPT !.isInvalidated = TRUE, !.fetchStatus = "idle"]
    ELSE [entry EXCEPT !.isInvalidated = TRUE]

\* The request of a mutation succeeds: onSuccess runs. (A settled mutation
\* keeps its status only: the views read isPending, and no callback refers to
\* the variables once the mutation has settled.)
MutationResolved ==
  /\ ViewsLive
  /\ \E site \in Sites :
       /\ mut[site].status = "pending"
       /\ mut' = [mut EXCEPT ![site] = [status |-> "success", variables |-> Null]]
       /\ cache' = [key \in QueryKeys |->
                      IF Invalidates(site, mut[site].variables, key)
                        THEN Invalidate(cache[key], Active(key, page, state, dash, cache))
                        ELSE cache[key]]
  /\ sent' = Null
  /\ StoreFrame
  /\ UNCHANGED <<localStorage, location, page, dash, searchQuery, loginPage, profileDue>>

MutationRejected ==
  /\ ViewsLive
  /\ \E site \in Sites :
       /\ mut[site].status = "pending"
       /\ mut' = [mut EXCEPT ![site] = [status |-> "error", variables |-> Null]]
       /\ \E e \in TransportErrors(
                   CASE site = "feedback" -> FeedbackUrl(mut[site].variables.recommendationId)
                     [] site \in {"submitReview", "reviewMutation"}
                          /\ mut[site].variables.kind = "create" ->
                          ReviewsUrl(mut[site].variables.bookId)
                     [] site \in {"reviewMutation", "deleteReview"}
                          /\ mut[site].variables.kind # "create" ->
                          ReviewUrl(mut[site].variables.bookId)
                     [] OTHER -> FavoriteUrl(mut[site].variables.bookId)) :
            /\ localStorage' = InterceptStorage(e, localStorage)
            /\ location' = InterceptLocation(e, location)
  /\ sent' = Null
  /\ StoreFrame
  /\ UNCHANGED <<page, dash, cache, searchQuery, loginPage, profileDue>>

\* ------------------------------------------------------------------------
\* RecommendationDashboard
\* ------------------------------------------------------------------------
\* getCurrentRecommendations / getCurrentLoading
CurrentEntry(d, c) ==
  IF d.tabValue = 0 THEN c[RecKey(d.refreshKey)] ELSE c[AiKey(d.refreshKey)]
CurrentRecommendations(d, c) ==
  IF CurrentEntry(d, c).data = Null THEN <<>> ELSE CurrentEntry(d, c).data.recommendations
CurrentLoading(d, c) == IsLoading(CurrentEntry(d, c))

\* The elements the dashboard renders; the alert of the AI tab is shown when
\* aiRecommendationData?.aiAvailable === false.
DashboardShows(d, c, s) ==
  IF d.componentError # Null THEN {"component-error", "try-again"}
  ELSE IF ~s.isAuthenticated THEN {"login-prompt"}
  ELSE {"tabs", "refresh"}
         \cup (IF /\ d.tabValue = 1
                   /\ c[AiKey(d.refreshKey)].data # Null
                   /\ ~c[AiKey(d.refreshKey)].data.aiAvailable
                 THEN {"ai-unavailable"} ELSE {})
         \cup (IF CurrentLoading(d, c) THEN {"skeleton"}
               ELSE IF CurrentEntry(d, c).status = "error" THEN {"load-error", "retry"}
               ELSE IF CurrentRecommendations(d, c) = <<>>
                 THEN {"empty-message", "refresh-link"}
                 ELSE {"cards"})

HandleTabChange ==
  /\ ViewsLive
  /\ dash # Null
  /\ "tabs" \in DashboardShows(dash, cache, state)
  /\ \E newValue \in {0, 1} :
       /\ newValue # dash.tabValue
       /\ dash' = [dash EXCEPT !.tabValue = newValue, !.componentError = Null]
  /\ cache' = Activated(cache, page, state, dash, page, state, dash')
  /\ sent' = Null
  /\ StoreFrame
  /\ UNCHANGED <<localStorage, location, page, mut, searchQuery, loginPage, profileDue>>

\* handleRefresh, from Try Again, Retry, Refresh or the header's icon button
\* (disabled while loading): the query of the present key is refetched,
\* whether enabled or not, and the refresh key moves on.
HandleRefresh ==
  /\ ViewsLive
  /\ dash # Null
  /\ dash.refreshKey < MaxRefresh
  /\ CanSend
  /\ dash' = [dash EXCEPT !.refreshKey = @ + 1, !.componentError = Null,
                          !.getRecommendations = IF dash.tabValue = 0 THEN @ + 1 ELSE @]
  /\ LET shows == DashboardShows(dash, cache, state)
         key == IF dash.tabValue = 0 THEN RecKey(dash.refreshKey)
                ELSE AiKey(dash.refreshKey)
     IN /\ \/ shows \cap {"try-again", "retry", "refresh-link"} # {}
           \/ "refresh" \in shows /\ ~CurrentLoading(dash, cache)
        /\ cache' = Activated([cache EXCEPT ![key] = FetchStart(@)],
                              page, state, dash, page, state, dash')
        /\ sent' = Request("get", QueryUrl(key), Null, localStorage, defaultAuth)
  /\ StoreFrame
  /\ UNCHANGED <<localStorage, location, page, mut, searchQuery, loginPage, profileDue>>

\* JSON body of a request: fields whose value is undefined are left out
UNDEFINED == "undefined"
JSONBody(body) == [k \in { f \in DOMAIN body : body[f] # UNDEFINED } |-> body[k]]

\* Mutant: the recommendation id is merged into the body.
FeedbackRequest_IdInBody(variables, ls, dflt) ==
  Request("post", FeedbackUrl(variables.recommendationId),
          JSONBody([type |-> variables.feedbackType,
                    recommendationId |-> "id", reason |-> UNDEFINED]), ls, dflt)

\* apiService.submitRecommendationFeedback(recommendationId, feedbackType)
FeedbackRequest(variables, ls, dflt) ==
  Request("post", FeedbackUrl(variables.recommendationId),
          JSONBody([type |-> variables.feedbackType, reason |-> UNDEFINED]), ls, dflt)

\* The like or dislike button of the card of book b is clicked (the buttons
\* are disabled while a feedback is pending): handleLike / handleDislike call
\* onFeedback(book.id, 'like' | 'dislike').
CardFeedback(b, button) ==
  /\ ViewsLive
  /\ dash # Null
  /\ "cards" \in DashboardShows(dash, cache, state)
  /\ InList(b, CurrentRecommendations(dash, cache))
  /\ mut["feedback"].status # "pending"
  /\ CanSend
  /\ LET variables == [recommendationId |-> b, feedbackType |-> button]
     IN /\ mut' = [mut EXCEPT !["feedback"] =
                     [status |-> "pending", variables |-> variables]]
        /\ sent' = FeedbackRequest(variables, localStorage, defaultAuth)
  /\ StoreFrame
  /\ UNCHANGED <<localStorage, location, page, dash, cache, searchQuery, loginPage, profileDue>>

HandleFeedback == \E b \in Books, button \in {"like", "dislike"} : CardFeedback(b, button)

\* ------------------------------------------------------------------------
\* Header: the search form
\* ------------------------------------------------------------------------
\* What the user may type: over a blank, a letter and a reserved character.
Texts == UNION { [1..n -> {" ", "a", "&"}] : n \in 0..MaxText }

\* String.prototype.trim
RECURSIVE TrimStart(_)
TrimStart(t) == IF t # <<>> /\ Head(t) = " " THEN TrimStart(Tail(t)) ELSE t
RECURSIVE TrimEnd(_)
TrimEnd(t) ==
  IF t # <<>> /\ t[Len(t)] = " " THEN TrimEnd(SubSeq(t, 1, Len(t) - 1)) ELSE t
Trim(t) == TrimEnd(TrimStart(t))

\* encodeURIComponent: unreserved characters stay, others become %XX
RECURSIVE EncodeURIComponent(_)
EncodeURIComponent(t) ==
  IF t = <<>> THEN <<>>
  ELSE (CASE Head(t) = " " -> <<"%", "2", "0">>
          [] Head(t) = "&" -> <<"%", "2", "6">>
          [] OTHER -> <<Head(t)>>) \o EncodeURIComponent(Tail(t))

\* Mutant: the form navigates with the raw input when it is not empty.
SearchTarget_Untrimmed(text, route) ==
  IF text # <<>> THEN Route("search", EncodeURIComponent(text)) ELSE route

\* if (searchQuery.trim()) navigate(`/search?q=${encodeURIComponent(...)}`)
SearchTarget(text, route) ==
  IF Trim(text) # <<>> THEN Route("search", EncodeURIComponent(Trim(text))) ELSE route

HandleSearchChange ==
  /\ ViewsLive
  /\ \E text \in Texts : searchQuery' = text
  /\ sent' = Null
  /\ StoreFrame
  /\ UNCHANGED <<localStorage, location, page, dash, cache, mut, loginPage, profileDue>>

HandleSearch ==
  /\ ViewsLive
  /\ page' = SearchTarget(searchQuery, page)
  /\ dash' = Rerender(dash, page', state)
  /\ loginPage' = Shown(loginPage, page', page', state)
  /\ profileDue' = Due(profileDue, page, state, page', state, FALSE)
  /\ sent' = Null
  /\ StoreFrame
  /\ UNCHANGED <<localStorage, location, cache, mut, searchQuery>>

\* ------------------------------------------------------------------------
\* A new document: the navigation started by the interceptor's
\* window.location.href = '/login' (or a reload by the user) discards the
\* page's memory and mounts the provider again; localStorage survives.
\* ------------------------------------------------------------------------
FreshViews(route) ==
  /\ page = route
  /\ dash = Rerender(Null, route, initialState)
  /\ cache = [key \in QueryKeys |-> NoEntry]
  /\ mut = [site \in Sites |-> IdleMutation]
  /\ sent = Null
  /\ searchQuery = <<>>
  /\ loginPage = Shown(Null, route, route, state)
  /\ profileDue = Due(FALSE, Route("home", 0), state, route, state, FALSE)

FreshPage(ls) ==
  /\ state = initialState
  /\ localStorage = ls
  /\ defaultAuth = Null
  /\ location = "/"
  /\ pc = [op \in Slots |-> IF op = "init" THEN "mount" ELSE "idle"]
  /\ locals = [op \in Slots |-> Null]
  /\ net = [op \in Slots |-> NoRequest]

\* The present route is loaded again.
PageLoad ==
  /\ Mounted
  /\ state' = initialState
  /\ defaultAuth' = Null
  /\ location' = "/"
  /\ pc' = [op \in Slots |-> IF op = "init" THEN "mount" ELSE "idle"]
  /\ locals' = [op \in Slots |-> Null]
  /\ net' = [op \in Slots |-> NoRequest]
  /\ last' = Step("load", "pending", Null, Null)
  /\ UNCHANGED page
  /\ dash' = Rerender(Null, page, initialState)
  /\ cache' = [key \in QueryKeys |-> NoEntry]
  /\ mut' = [site \in Sites |-> IdleMutation]
  /\ sent' = Null
  /\ searchQuery' = <<>>
  /\ loginPage' = Shown(Null, page, page, initialState)
  /\ profileDue' = FALSE
  /\ UNCHANGED localStorage

\* ------------------------------------------------------------------------
\* Specifications
\* ------------------------------------------------------------------------
Init ==
  /\ \E ls \in StartupStorages : FreshPage(ls)
  /\ FreshViews(Route("home", 0))
  /\ last = Step("load", "pending", Null, Null)

\* The first visit: nothing has been persisted yet.
InitFresh ==
  /\ FreshPage(EmptyStorage)
  /\ FreshViews(Route("home", 0))
  /\ last = Step("load", "pending", Null, Null)

Next ==
  \/ InitializeAuth
  \/ ValidateResolved
  \/ ValidateRejected
  \/ LoginCall
  \/ LoginResolved
  \/ LoginRejected
  \/ RegisterCall
  \/ RegisterResolved
  \/ RegisterRejected
  \/ RegisterLoginResolved
  \/ RegisterLoginRejected
  \/ LogoutCall
  \/ LogoutResolved
  \/ LogoutRejected
  \/ UpdateProfileCall
  \/ UpdateProfileResolved
  \/ UpdateProfileRejected
  \/ ChangePasswordCall
  \/ ChangePasswordResolved
  \/ ChangePasswordRejected
  \/ RefreshProfileCall
  \/ RefreshProfileResolved
  \/ RefreshProfileRejected
  \/ ApiCall
  \/ ApiResolved
  \/ ApiRejected
  \/ PageLoad

Spec == Init /\ [][Next]_vars

\* A signed-in session, as a login leaves it, showing one of routes.
SignedIn(routes) ==
  \E r \in JwtResponses, route \in routes :
  /\ state = LoginSucceeded(r, authReducer(initialState, SetLoading(FALSE)))
  /\ localStorage = LoginStorage(r, EmptyStorage)
  /\ defaultAuth = LoginHeader(r)
  /\ location = "/"
  /\ pc = [op \in Slots |-> IF op = "init" THEN "done" ELSE "idle"]
  /\ locals = [op \in Slots |-> Null]
  /\ net = [op \in Slots |-> NoRequest]
  /\ last = Step("login", "fulfilled", Ok(r), Null)
  /\ page = route
  /\ dash = Rerender(Null, route, state)
  /\ cache = [key \in QueryKeys |-> NoEntry]
  /\ mut = [site \in Sites |-> IdleMutation]
  /\ sent = Null
  /\ searchQuery = <<>>
  /\ loginPage = Shown(Null, route, route, state)
  /\ profileDue = Due(FALSE, Route("home", 0), state, route, state, FALSE)

\* The pages that show favorites, for a signed-in user.
NextFavorites ==
  \/ Navigate({Route("books", 0), Route("favorites", 0)} \cup { Route("book", b) : b \in Books })
  \/ QueryFetch(QueryKeys \ ReviewKeys)
  \/ QueryResolved(QueryKeys \ ReviewKeys, Answers)
  \/ ToggleFromButton
  \/ ToggleFromDetails
  \/ RemoveFromFavorites
  \/ MutationResolved
  \/ MutationRejected

SpecFavorites == SignedIn({Route("books", 0)}) /\ [][NextFavorites]_vars

\* The home page of a signed-in user: its queries, the dashboard's handlers
\* and the feedback mutation.
NextDashboard ==
  \/ QueryFetch(DashboardKeys)
  \/ QueryResolved(DashboardKeys, Answers)
  \/ QueryRejected(DashboardKeys)
  \/ HandleTabChange
  \/ HandleFeedback
  \/ MutationResolved
  \/ MutationRejected

SpecDashboard == SignedIn({Route("home", 0)}) /\ [][NextDashboard]_vars

\* The dashboard of a signed-in user on the home page: its queries are
\* fetched and answered, the user switches tabs and clicks Refresh.
NextRefresh ==
  \/ QueryFetch(DashboardKeys)
  \/ QueryResolved(DashboardKeys, Answers)
  \/ QueryRejected(DashboardKeys)
  \/ HandleTabChange
  \/ HandleRefresh

\* Reviews: a signed-in user moves between the book pages and the list of
\* their reviews, the queries of these pages are fetched and answered, and
\* the user creates, updates and deletes reviews.
NextReviews ==
  \/ Navigate({Route("myReviews", 0)} \cup { Route("book", b) : b \in Books })
  \/ QueryFetch(ReviewKeys \cup {QueryKey("myReviews", 0)})
  \/ QueryResolved(ReviewKeys \cup {QueryKey("myReviews", 0)}, Answers)
  \/ HandleReviewSubmit
  \/ MyReviewSubmit
  \/ HandleReviewDelete
  \/ MutationResolved

SpecReviews == SignedIn({Route("myReviews", 0)}) /\ [][NextReviews]_vars

SpecRefresh == SignedIn({Route("home", 0)}) /\ [][NextRefresh]_vars

\* A signed-in user opens any page; its queries are fetched, fail, are
\* retried and settle.
NextQueries ==
  \/ QueryFetch(QueryKeys)
  \/ QueryRetry(QueryKeys)
  \/ QueryResolved(QueryKeys, Answers)
  \/ QueryRejected(QueryKeys)
  \/ HandleTabChange

SpecQueries ==
  SignedIn({ route \in Routes : route.name \notin PublicOnlyPages }) /\ [][NextQueries]_vars

\* The answers of the gated endpoints to a user for whom the backend has
\* nothing to recommend and no AI service configured.
NothingRecommended ==
  { body \in Answers :
      /\ "recommendations" \in DOMAIN body => body.recommendations = <<>>
      /\ "aiAvailable" \in DOMAIN body => ~body.aiAvailable }

\* Header: the Logout item of the menu of a signed-in user
HandleLogout == state.isAuthenticated /\ LogoutCall

\* A document is opened at any route, by a visitor or with the session a
\* login has persisted (who the user is plays no part in the views); the
\* session is validated, the views fetch, the user uses the dashboard and
\* signs out.
InitGate ==
  /\ \E ls \in {EmptyStorage, LoginStorage(CHOOSE r \in JwtResponses : r.userId = 1,
                                           EmptyStorage)} : FreshPage(ls)
  /\ \E route \in Routes : FreshViews(route)
  /\ last = Step("load", "pending", Null, Null)

NextGate ==
  \/ InitializeAuth
  \/ ValidateResolved
  \/ ValidateRejected
  \/ HandleLogout
  \/ LogoutResolved
  \/ LogoutRejected
  \/ QueryFetch(GatedKeys)
  \/ QueryRetry(GatedKeys)
  \/ QueryResolved(GatedKeys, NothingRecommended)
  \/ QueryRejected(GatedKeys)
  \/ HandleTabChange
  \/ HandleRefresh

SpecGate == InitGate /\ [][NextGate]_vars

\* The header's search form, on any page.
NextSearch ==
  \/ HandleSearchChange
  \/ HandleSearch
  \/ Navigate(Routes)

SpecSearch == SignedIn({Route("home", 0)}) /\ [][NextSearch]_vars

\* A document is opened at any route with any content of the persisted
\* storage.
InitStartup ==
  /\ \E ls \in StartupStorages : FreshPage(ls)
  /\ \E route \in Routes : FreshViews(route)
  /\ last = Step("load", "pending", Null, Null)

\* The form of the login page: handleSubmit(onSubmit), reachable only while
\* the LoginPage is mounted.
OnSubmit ==
  /\ loginPage # Null
  /\ loginPage.mounted
  /\ LoginCall

\* Signing in through the login page: after startup at any route the user
\* moves between the routes, submits the login form and signs out.
NextLogin ==
  \/ InitializeAuth
  \/ ValidateResolved
  \/ ValidateRejected
  \/ Navigate(Routes)
  \/ OnSubmit
  \/ LoginResolved
  \/ LoginRejected
  \/ HandleLogout
  \/ LogoutResolved
  \/ LogoutRejected

SpecLogin == InitStartup /\ [][NextLogin]_vars

\* ProfilePage's effect runs: refreshProfile()
ProfileEffect ==
  /\ ViewsLive
  /\ profileDue
  /\ RefreshProfileCall

\* Startup: initializeAuth runs from the effect of AuthProvider's mount, and
\* the validate request settles.
NextStartup ==
  \/ InitializeAuth
  \/ ValidateResolved
  \/ ValidateRejected

SpecStartup ==
  /\ InitStartup
  /\ [][NextStartup]_vars
  /\ WF_vars(InitializeAuth)
  /\ WF_vars(ValidateResolved \/ ValidateRejected)

\* After startup the profile page, once shown, refreshes the profile. The
\* user does nothing.
NextProfile ==
  \/ InitializeAuth
  \/ ValidateResolved
  \/ ValidateRejected
  \/ ProfileEffect
  \/ RefreshProfileResolved
  \/ RefreshProfileRejected

\* Effects run after every render.
SpecProfile == InitStartup /\ [][NextProfile]_vars /\ WF_vars(ProfileEffect)

SpecFresh == InitFresh /\ [][Next]_vars

TypeOK ==
  /\ state.loading \in BOOLEAN
  /\ state.isAuthenticated \in BOOLEAN
  /\ \A op \in Slots : pc[op] = "idle" => net[op] = NoRequest
  /\ page \in Routes \/ page.name = "search"
  /\ dash # Null => dash.tabValue \in {0, 1} /\ dash.refreshKey \in 0..MaxRefresh
  /\ \A key \in QueryKeys :
       /\ cache[key].status \in {"pending", "success", "error"}
       /\ cache[key].fetchStatus \in {"idle", "fetching", "waiting"}
       /\ cache[key].calls \in 0..(Retry(key) + 1)
  /\ \A site \in Sites : mut[site].status \in {"idle", "pending", "success", "error"}
  /\ searchQuery \in Texts
  /\ loginPage # Null => (page.name = "login" /\ loginPage.mounted \in BOOLEAN)
  /\ profileDue \in BOOLEAN
  /\ profileDue => (page.name = "profile" /\ Rendered(page, state))

\* ------------------------------------------------------------------------
\* Properties
\* ------------------------------------------------------------------------
\* The last step delivered a transport error / a response body.
LastErr == last.response # Null /\ "err" \in DOMAIN last.response
LastOk == last.response # Null /\ "ok" \in DOMAIN last.response

Unauthenticated(s) == ~s.isAuthenticated /\ s.user = Null /\ s.token = Null

\* C1: after login() whose request succeeded with response r (called by a
\* view, or by register()), the store is authenticated, not loading, its user
\* carries r.userId / r.name / r.email, its token is r.token and the persisted
\* 'token' entry is r.token.
C1_LoginEstablishesSession ==
  (last.op \in {"login", "register"} /\ last.outcome = "fulfilled") =>
     LET r == last.response.ok IN
       /\ state.isAuthenticated
       /\ ~state.loading
       /\ state.user # Null
       /\ state.user.id = r.userId
       /\ state.user.name = r.name
       /\ state.user.email = r.email
       /\ state.token = r.token
       /\ localStorage.token = r.token

C1_Witness ==
  /\ last.op = "login"
  /\ last.outcome = "fulfilled"
  /\ localStorage.token = last.response.ok.token
  /\ localStorage.token # STALE_TOKEN

\* C2: once logout() has settled, whether its request succeeded or was
\* rejected, both persisted entries are absent, the store is unauthenticated
\* with user and token null, and logout() has not rejected.
C2_LogoutAlwaysClears ==
  (last.op = "logout" /\ last.outcome # "pending") =>
     /\ localStorage.token = Null
     /\ localStorage.user = Null
     /\ Unauthenticated(state)
     /\ last.outcome = "fulfilled"

C2_Witness ==
  /\ last.op = "logout"
  /\ LastErr
  /\ last.response.err.response = Null
  /\ localStorage = EmptyStorage

\* C3: at startup with both entries persisted, when the validate-token request
\* answers valid=false or is rejected, both entries are removed and the store
\* is unauthenticated with user null and loading false.
C3_InvalidTokenCleared ==
  (/\ last.op = "init"
   /\ last.outcome = "fulfilled"
   /\ \/ LastErr
      \/ (LastOk /\ ~last.response.ok.valid)) =>
     /\ localStorage.token = Null
     /\ localStorage.user = Null
     /\ ~state.isAuthenticated
     /\ state.user = Null
     /\ ~state.loading

C3_Witness ==
  /\ last.op = "init"
  /\ LastOk
  /\ ~last.response.ok.valid
  /\ localStorage = EmptyStorage

\* C4: after every step, an authenticated store has a non-null user; and a
\* step that turns the store authenticated, or gives an authenticated store
\* another user or token, leaves loading false.
C4_AuthenticatedHasUser ==
  [][state'.isAuthenticated =>
       /\ state'.user # Null
       /\ (\/ ~state.isAuthenticated
           \/ state'.user # state.user
           \/ state'.token # state.token) => ~state'.loading]_vars

C4_Witness ==
  /\ state.isAuthenticated
  /\ state.user \in Profiles
  /\ state.token = Null
  /\ last.op = "refreshProfile"

\* C5: starting from empty storage, whenever the 'token' entry is present
\* between two tasks, the 'user' entry is present too.
C5_TokenImpliesUser ==
  localStorage.token # Null => localStorage.user # Null

C5_Witness ==
  /\ localStorage.token # Null
  /\ localStorage.user # Null
  /\ LastErr
  /\ last.op = "api"

\* C6: a persisted 'user' entry never exists without a persisted 'token'
\* entry.
C6_UserImpliesToken ==
  localStorage.user # Null => localStorage.token # Null

\* C7: at startup with the token or the user entry absent, no validate-token
\* request is made, and after initialization neither entry remains and the
\* store is unauthenticated with loading false.
C7_StartupAbsentClears ==
  (last.op = "init" /\ last.outcome = "fulfilled" /\ last.response = Null) =>
     /\ net["init"] = NoRequest
     /\ localStorage.token = Null
     /\ localStorage.user = Null
     /\ ~state.isAuthenticated
     /\ ~state.loading

\* C8: when the login request fails, login() (called by a view, or by
\* register()) rejects with that same error, the store ends unauthenticated
\* with user and token null and loading false, no value is written to a
\* persisted entry (the entries are unchanged, or were removed by the response
\* interceptor on a 401) and the default auth header is untouched.
C8_LoginFailureResets ==
  [][(/\ \/ pc["login"] = "awaitLogin" /\ last'.op = "login"
         \/ pc["register"] = "awaitLogin" /\ last'.op = "register"
      /\ last'.response # Null
      /\ "err" \in DOMAIN last'.response) =>
       /\ last'.outcome = "rejected"
       /\ last'.thrown = last'.response.err
       /\ Unauthenticated(state')
       /\ ~state'.loading
       /\ localStorage'.token \in {localStorage.token, Null}
       /\ localStorage'.user \in {localStorage.user, Null}
       /\ (HasStatus(last'.response.err, 401) \/ localStorage' = localStorage)
       /\ defaultAuth' = defaultAuth]_vars

C8_Witness ==
  /\ last.op = "login"
  /\ last.outcome = "rejected"
  /\ last.thrown.response = Null
  /\ localStorage.token # Null
  /\ defaultAuth # Null

\* C9: register() issues the login request only once the register request has
\* succeeded, with exactly userData.email and userData.password; a step of
\* register() authenticates the store or persists a token only when that login
\* succeeded; when the register request fails or reports failure, no login
\* request is issued, the store is unauthenticated with loading false and
\* register() rejects.
C9_RegisterThenLogin ==
  [][(last'.op = "register" /\ pc'["register"] # pc["register"]) =>
       /\ (net'["register"].url = URL_LOGIN) =>
            /\ pc["register"] = "awaitRegister"
            /\ "ok" \in DOMAIN last'.response
            /\ last'.response.ok.success
            /\ net'["register"].data =
                 [email |-> locals["register"].email,
                  password |-> locals["register"].password]
       /\ (\/ (~state.isAuthenticated /\ state'.isAuthenticated)
           \/ (localStorage'.token # Null /\ localStorage'.token # localStorage.token)) =>
            /\ pc["register"] = "awaitLogin"
            /\ last'.outcome = "fulfilled"
            /\ "ok" \in DOMAIN last'.response
            /\ localStorage'.token = last'.response.ok.token
       /\ (/\ pc["register"] = "awaitRegister"
           /\ \/ "err" \in DOMAIN last'.response
              \/ ~last'.response.ok.success) =>
            /\ net'["register"] = NoRequest
            /\ pc'["register"] = "idle"
            /\ ~state'.isAuthenticated
            /\ ~state'.loading
            /\ last'.outcome = "rejected"
            /\ last'.thrown # Null]_vars

C9_Witness ==
  /\ last.op = "register"
  /\ last.outcome = "fulfilled"
  /\ state.isAuthenticated
  /\ localStorage.token = last.response.ok.token

\* C10: when a response has status 401 and the request path contains '/auth/'
\* or '/profile', both persisted entries are removed, the browser is sent to
\* /login, the request is not retried and the caller receives that same error.
C10_UnauthorizedForcesLogout ==
  (/\ LastErr
   /\ HasStatus(last.response.err, 401)
   /\ \/ Includes(last.response.err.config.url, AUTH_PART)
      \/ Includes(last.response.err.config.url, PROFILE_PART)) =>
     /\ localStorage.token = Null
     /\ localStorage.user = Null
     /\ location = "/login"
     /\ net[last.op] = NoRequest
     /\ (last.op \in {"login", "register", "updateProfile", "api"} =>
           /\ last.outcome = "rejected"
           /\ last.thrown = last.response.err)

C10_Witness ==
  /\ last.op = "api"
  /\ LastErr
  /\ HasStatus(last.response.err, 401)
  /\ last.response.err.config.url = URL_MY_REVIEWS
  /\ location = "/login"
  /\ state.isAuthenticated

\* The operations of the auth store that write the session.
AuthStoreOps == {"init", "login", "register", "logout", "updateProfile", "refreshProfile"}

SessionOf(s) == <<s.user, s.token, s.isAuthenticated>>

\* C11: a step that belongs neither to a session-writing operation of the auth
\* store (startup, login, register's login, logout, updateProfile,
\* refreshProfile) nor to the construction of the store by a new document
\* leaves the store's user, token and isAuthenticated unchanged; it leaves both
\* persisted entries unchanged too, unless it delivers a 401 for a path
\* containing '/auth/' or '/profile', in which case both entries are removed.
C11_OnlyAuthPathsTouchSession ==
  [][last'.op \notin (AuthStoreOps \cup {"load"}) =>
       /\ SessionOf(state') = SessionOf(state)
       /\ \/ localStorage' = localStorage
          \/ /\ last'.response # Null
             /\ "err" \in DOMAIN last'.response
             /\ HasStatus(last'.response.err, 401)
             /\ \/ Includes(last'.response.err.config.url, AUTH_PART)
                \/ Includes(last'.response.err.config.url, PROFILE_PART)
             /\ localStorage' = EmptyStorage]_vars

C11_Witness ==
  /\ last.op = "api"
  /\ LastErr
  /\ HasStatus(last.response.err, 401)
  /\ last.response.err.config.url = URL_BOOKS
  /\ localStorage.token # Null
  /\ localStorage.user # Null
  /\ state.isAuthenticated

\* C12: a request sent while a token t is persisted leaves the request
\* interceptor with the header 'Bearer t', t being the persisted value at the
\* moment of sending, whatever the default header holds.
C12_RequestCarriesPersistedToken ==
  [][(last'.request # Null /\ localStorage.token # Null) =>
       last'.request.auth = Bearer(localStorage.token)]_vars

C12_Witness ==
  /\ last.request # Null
  /\ localStorage.token # Null
  /\ defaultAuth # Null
  /\ defaultAuth # Bearer(localStorage.token)
  /\ last.request.auth = Bearer(localStorage.token)

\* C13: whenever no operation of the auth store is in flight, the default
\* auth header is 'Bearer t' when the store is authenticated with token t and
\* absent when the store is unauthenticated.
C13_HeaderSynchronized ==
  (\A op \in Slots \ {"api"} : pc[op] \in {"idle", "done", "mount"}) =>
     IF state.isAuthenticated
       THEN state.token # Null /\ defaultAuth = Bearer(state.token)
       ELSE defaultAuth = Null

\* C20: changePassword() called with newPassword different from
\* confirmPassword rejects in the same step with the local mismatch error,
\* sends no request, and leaves the store, the persisted entries and the
\* default header unchanged.
C20_MismatchFailsLocally ==
  [][(/\ last'.op = "changePassword"
      /\ last'.input # Null
      /\ last'.input.newPassword # last'.input.confirmPassword) =>
       /\ last'.outcome = "rejected"
       /\ last'.thrown = LocalError(MISMATCH_MESSAGE)
       /\ last'.request = Null
       /\ net' = net
       /\ pc' = pc
       /\ state' = state
       /\ localStorage' = localStorage
       /\ defaultAuth' = defaultAuth]_vars

C20_Witness ==
  /\ last.op = "changePassword"
  /\ last.input # Null
  /\ last.input.newPassword # last.input.confirmPassword
  /\ last.outcome = "rejected"
  /\ state.isAuthenticated
  /\ localStorage.token # Null

\* C14: a favorite mutation for book b that succeeds, from whichever view it
\* was issued, leaves the cached favorite-status query of b invalidated.
C14_FavoriteStatusInvalidated ==
  [][\A site \in Sites \ {"feedback"} :
       (/\ mut[site].status = "pending"
        /\ mut'[site].status = "success"
        /\ cache[FavKey(mut[site].variables.bookId)] # NoEntry)
       => cache'[FavKey(mut[site].variables.bookId)].isInvalidated]_vars

\* C15: a click on like or dislike on the card of book b sends one POST to the
\* feedback endpoint of b whose body holds the clicked type and nothing else,
\* the mutation being called with exactly {recommendationId, feedbackType}.
C15_FeedbackCarriesTypeAndId ==
  [][\A b \in Books, button \in {"like", "dislike"} :
       CardFeedback(b, button) =>
         /\ mut'["feedback"].variables = [recommendationId |-> b, feedbackType |-> button]
         /\ sent'.method = "post"
         /\ sent'.url = FeedbackUrl(b)
         /\ sent'.data = [type |-> button]]_vars

C15_Witness ==
  /\ mut["feedback"].status = "pending"
  /\ sent # Null
  /\ sent.url = FeedbackUrl(1)
  /\ sent.data = [type |-> "dislike"]

\* C17: on the AI tab with an answer that holds no recommendation, the "not
\* available" message is shown without the empty-list message when the
\* answer says aiAvailable = false, and the empty-list message without the
\* "not available" message when it says aiAvailable = true.
C17_UnavailableIsNotEmptyList ==
  (/\ dash # Null
   /\ dash.tabValue = 1
   /\ cache[AiKey(dash.refreshKey)].status = "success"
   /\ cache[AiKey(dash.refreshKey)].data.recommendations = <<>>)
  => LET shows == DashboardShows(dash, cache, state)
     IN IF cache[AiKey(dash.refreshKey)].data.aiAvailable
          THEN "empty-message" \in shows /\ "ai-unavailable" \notin shows
          ELSE "ai-unavailable" \in shows /\ "empty-message" \notin shows

\* The text consists of white space only.
IsBlank(t) == \A i \in 1..Len(t) : t[i] = " "

\* The text between its first and its last character that is not a space.
Core(t) ==
  LET solid == { i \in 1..Len(t) : t[i] # " " }
      from == CHOOSE i \in solid : \A j \in solid : i <= j
      upto == CHOOSE i \in solid : \A j \in solid : j <= i
  IN IF solid = {} THEN <<>> ELSE SubSeq(t, from, upto)

\* What the search page reads back from the q parameter.
RECURSIVE Decoded(_)
Decoded(q) ==
  IF q = <<>> THEN <<>>
  ELSE IF Head(q) = "%"
    THEN << (IF SubSeq(q, 2, 3) = <<"2", "0">> THEN " " ELSE "&") >> \o Decoded(SubSeq(q, 4, Len(q)))
    ELSE <<Head(q)>> \o Decoded(Tail(q))

\* C16: submitting the search form navigates to the search page, with a q
\* parameter that is URL-safe and decodes to the input without its
\* surrounding white space, exactly when the input is not blank; a blank
\* input changes neither the route nor the cache and sends nothing.
C16_SearchNavigatesIffNotBlank ==
  [][/\ HandleSearch =>
          IF IsBlank(searchQuery)
            THEN page' = page /\ cache' = cache /\ sent' = Null
            ELSE /\ page' = Route("search", page'.arg)
                 /\ Decoded(page'.arg) = Core(searchQuery)
                 /\ \A i \in 1..Len(page'.arg) : page'.arg[i] \notin {" ", "&"}
     /\ (page' # page /\ page'.name = "search") =>
          ~IsBlank(searchQuery) /\ Decoded(page'.arg) = Core(searchQuery)]_vars

\* A query typed with white space around it and a reserved character in it
\* has been submitted.
C16_Witness ==
  /\ page.name = "search"
  /\ searchQuery = <<" ", "&", " ">>
  /\ page.arg = <<"%", "2", "6">>

\* The fetch of the query has failed and the failure is shown.
Failed(key) == cache[key].status = "error" /\ cache[key].fetchStatus = "idle"

\* C18 as stated: no query is ever retried; a failed fetch has called the
\* query function once.
C18_NoQueryRetries ==
  \A key \in QueryKeys :
    /\ cache[key].fetchStatus # "waiting"
    /\ Failed(key) => cache[key].calls = 1

\* C18, amended: the two recommendation queries are never retried, a failure
\* of theirs is shown after one call; every other query, while it stays
\* observed, is called a second time before its failure is shown.
C18_RetriesOffForRecommendationsOnly ==
  \A key \in QueryKeys :
    IF key \in DashboardKeys
      THEN /\ cache[key].fetchStatus # "waiting"
           /\ Failed(key) => cache[key].calls = 1
      ELSE Failed(key) => cache[key].calls = 2

C18_Witness ==
  /\ Failed(RecKey(0))
  /\ Failed(AiKey(0))
  /\ Failed(TopKey)
  /\ cache[TopKey].calls = 2

C21_RefreshFailureChangesNothing ==
  [][last'.op = "refreshProfile" =>
       /\ (pc["refreshProfile"] = "idle" /\ ~state.isAuthenticated) =>
            /\ last'.request = Null
            /\ net' = net
            /\ state' = state
            /\ localStorage' = localStorage
       /\ (/\ pc["refreshProfile"] = "awaitProfile"
           /\ last'.response # Null
           /\ "err" \in DOMAIN last'.response) =>
            /\ last'.outcome = "fulfilled"
            /\ last'.thrown = Null
            /\ state'.user = state.user
            /\ localStorage'.user = localStorage.user]_vars

\* C21, amended: as stated, except that a failure with status 401 has made
\* the response interceptor remove both persisted entries (the store is
\* unchanged all the same); after any other failure the persisted entries
\* are unchanged.
C21_RefreshFailureIsSwallowed ==
  [][last'.op = "refreshProfile" =>
       /\ (pc["refreshProfile"] = "idle" /\ ~state.isAuthenticated) =>
            /\ last'.request = Null
            /\ net' = net
            /\ state' = state
            /\ localStorage' = localStorage
       /\ (/\ pc["refreshProfile"] = "awaitProfile"
           /\ last'.response # Null
           /\ "err" \in DOMAIN last'.response) =>
            /\ last'.outcome = "fulfilled"
            /\ last'.thrown = Null
            /\ state' = state
            /\ localStorage' = IF HasStatus(last'.response.err, 401)
                                 THEN EmptyStorage ELSE localStorage]_vars

\* refreshProfile has failed with a 401 for a signed-in user.
C21_Witness ==
  /\ last.op = "refreshProfile"
  /\ LastErr
  /\ HasStatus(last.response.err, 401)
  /\ last.thrown = Null
  /\ state.isAuthenticated
  /\ state.user # Null
  /\ localStorage = EmptyStorage

\* C22: a protected page (/profile, /favorites, /my-reviews) that is not
\* loading is shown to an authenticated store only, and the requests of the
\* protected views are sent only with loading=false and isAuthenticated=true;
\* the router leaves a protected path for /login only with loading=false and
\* isAuthenticated=false; while loading=true the path stays: a document
\* opened at a protected path with a persisted session that validates is
\* never sent to /login.
C22_ProtectedViewsGuarded ==
  [][/\ (page'.name \in {"profile", "favorites", "myReviews"} /\ ~state'.loading)
          => state'.isAuthenticated
     /\ (sent' # Null /\ sent'.url \in {"/books/favorites", URL_MY_REVIEWS})
          => (~state'.loading /\ state'.isAuthenticated)
     /\ (page.name \in {"profile", "favorites", "myReviews"} /\ page'.name = "login")
          => (~state'.loading /\ ~state'.isAuthenticated)
     /\ (page.name \in {"profile", "favorites", "myReviews"} /\ state'.loading)
          => page' = page
     /\ (/\ page.name \in {"profile", "favorites", "myReviews"}
         /\ last'.op = "init"
         /\ state'.isAuthenticated)
          => page' = page]_vars

\* A document opened at /profile with a persisted session has been validated
\* and shows the profile page.
C22_Witness ==
  /\ page.name = "profile"
  /\ last.op = "init"
  /\ last.outcome = "fulfilled"
  /\ ~state.loading
  /\ state.isAuthenticated

\* C23: when a login submitted from the login page fails, the login page is
\* shown with the message of the failure: "Invalid email or password. Please
\* try again." for a 401, the backend's message when there is one, and
\* "Login failed. Please try again." otherwise.
C23_LoginFailureShown ==
  [][(/\ loginPage # Null
      /\ pc["login"] = "awaitLogin"
      /\ last'.op = "login"
      /\ last'.outcome = "rejected") =>
       /\ loginPage' # Null
       /\ loginPage'.mounted
       /\ loginPage'.error = LoginMessage(last'.thrown)]_vars

\* C24: a successful login from the login page navigates to the protected
\* route the router had turned away, and to "/" when the login page was
\* reached directly.
C24_LoginReturnsToOrigin ==
  [][(/\ loginPage # Null
      /\ pc["login"] = "awaitLogin"
      /\ last'.op = "login"
      /\ last'.outcome = "fulfilled") =>
       page' = IF loginPage.origin # Null THEN loginPage.origin ELSE Route("home", 0)]_vars

\* C25: with the Personalized tab active and the AI tab never used, once the
\* dashboard's personalized queries have settled after n clicks on Refresh,
\* apiService.getRecommendations has been called n + 1 times.
C25_OneCallPerRefresh ==
  (/\ dash # Null
   /\ dash.tabValue = 0
   /\ \A k \in 0..MaxRefresh : cache[AiKey(k)] = NoEntry
   /\ \A k \in 0..dash.refreshKey :
        cache[RecKey(k)].fetchStatus = "idle" /\ cache[RecKey(k)].status = "success")
    => dash.getRecommendations = dash.refreshKey + 1

\* C26: when a review mutation (create, update or delete, from the book page
\* or from the list of the user's reviews) has succeeded, every cached query
\* it affects is invalidated or is being fetched again: the reviews of the
\* book, the details of the book and the list of the user's reviews.
C26_ReviewMutationInvalidates ==
  [][\A site \in {"submitReview", "reviewMutation", "deleteReview"} :
       (mut[site].status = "pending" /\ mut'[site].status = "success") =>
         \A key \in { QueryKey("bookReviews", mut[site].variables.bookId),
                      QueryKey("book", mut[site].variables.bookId),
                      QueryKey("myReviews", 0) } :
           \/ cache'[key] = NoEntry
           \/ cache'[key].isInvalidated
           \/ cache'[key].fetchStatus = "fetching"]_vars

\* C27: when logout() has completed, a response to a refreshProfile or an
\* updateProfile that was in flight does not sign the store in again and
\* persists no user: the store stays unauthenticated and the persisted user
\* entry stays absent.
C27_LogoutIsFinal ==
  [][(/\ last.op = "logout"
      /\ last.outcome = "fulfilled"
      /\ last'.op \in {"refreshProfile", "updateProfile"}) =>
       /\ ~state'.isAuthenticated
       /\ localStorage'.user = Null]_vars

\* C28: whenever no operation of the auth store is in flight (initializeAuth
\* has finished and no other operation is suspended), the store is
\* authenticated exactly when a token is persisted, and then the store's
\* token is the persisted token.
C28_StoreMatchesStorage ==
  (/\ pc["init"] = "done"
   /\ \A op \in Slots \ {"init"} : pc[op] = "idle")
    => /\ state.isAuthenticated <=> localStorage.token # Null
       /\ state.isAuthenticated => state.token = localStorage.token

\* C29: with the profile page shown and no action of the user, the requests
\* GET /auth/profile come to an end: from some point on no step sends one.
C29_ProfileFetchesEnd ==
  <>[][~(last'.op = "refreshProfile" /\ last'.request # Null)]_vars

\* C30: from startup, whatever the persisted storage holds (both entries
\* absent, one present, a user entry that is not JSON, both valid) and
\* however the validate request settles, the store reaches loading=false.
C30_LoadingEnds ==
  <>(~state.loading)

\* The validate request of a persisted session has failed and loading is
\* false.
C30_Witness ==
  /\ last.op = "init"
  /\ LastErr
  /\ pc["init"] = "done"
  /\ ~state.loading

====
